---- MODULE Spec2Model ----
(***************************************************************************)
(* Model of the summary computation of the spending-analysis dashboard:    *)
(* ai_report/features.py (income estimate, short-term baseline selection,  *)
(* period aggregates, fixed-cost detection, budget recommendation, spend   *)
(* judgement) together with the two report paths of                        *)
(* ai_report/ui/generators.py and the date/kind filter of app/sidebar.py   *)
(* that feed it, and of the classification of raw tables,                  *)
(* expense_preprocess/preprocess.py.  Further down: the data manager       *)
(* (expense_preprocess/data_manager/state.py) with the sidebar uploader of *)
(* app/sidebar.py, the report cache of ai_report/utils.py with the cache   *)
(* protocol of the two generators, and the LLM client ai_report/llm.py.    *)
(*                                                                         *)
(* Numbers.  Amounts are whole currency units.  Every quotient the code    *)
(* forms in floating point (medians, daily averages, income = base /       *)
(* (1 - rate), ratios) is kept as an exact fraction [n, d] with d > 0 and  *)
(* compared by cross multiplication; rates and thresholds are carried in   *)
(* hundredths (0.55 is 55).  Floating-point rounding is not modelled.      *)
(*                                                                         *)
(* Dates.  A date is a day number, day 0 being 1 January of a non-leap     *)
(* year; NaT, a number that is no day, is the value                        *)
(* pd.to_datetime(errors="coerce") gives a date that does not parse.       *)
(***************************************************************************)
EXTENDS Integers, Sequences, FiniteSets, TLC

VARIABLES
    df,                      \* the table handed to the operation (rows in order)
    date_range,              \* <<start, end>> of the period window
    params,                  \* AIRuleParams
    monthly_expense,         \* argument of _estimate_income_from_expense
    fixed_cost_est_monthly,  \* argument of _estimate_income_from_expense
    stc_args,                \* end_ts, window_days, baseline_months
    budget,                  \* budget_total handed to _compute_budget_recommendation
    raw_df,                  \* the raw table handed to run_preprocess
    session_state,           \* st.session_state: the keys of the page modelled
    disk,                    \* the files the application keeps (.dm_store, ai_cache)
    llm,                     \* the calls of the LLM client and their requests
    out                      \* result of the last operation, tagged by op

vars == <<df, date_range, params, monthly_expense, fixed_cost_est_monthly, stc_args,
          budget, raw_df, session_state, disk, llm, out>>

\* a missing number (Python None) is the fraction with denominator 0
None == [n |-> 0, d |-> 0]
NaT  == -99999

(***************************************************************************)
(* Exact fractions                                                         *)
(***************************************************************************)
RECURSIVE Gcd(_, _)
Gcd(a, b) == IF b = 0 THEN a ELSE Gcd(b, a % b)

Abs(x) == IF x < 0 THEN -x ELSE x

\* n / d for d # 0, reduced, denominator positive
Rat(n, d) ==
    LET s == IF d < 0 THEN -1 ELSE 1
        g == Gcd(Abs(n), Abs(d))
        k == IF g = 0 THEN 1 ELSE g
    IN  [n |-> (s * n) \div k, d |-> (s * d) \div k]

RInt(x)    == [n |-> x, d |-> 1]
RLe(a, b)  == a.n * b.d <= b.n * a.d
RLt(a, b)  == a.n * b.d <  b.n * a.d
REq(a, b)  == a.n * b.d =  b.n * a.d
RAdd(a, b) == Rat(a.n * b.d + b.n * a.d, a.d * b.d)
RSub(a, b) == Rat(a.n * b.d - b.n * a.d, a.d * b.d)
RMul(a, b) == Rat(a.n * b.n, a.d * b.d)
RDiv(a, b) == Rat(a.n * b.d, a.d * b.n)
RMax(a, b) == IF RLe(b, a) THEN a ELSE b
RMin(a, b) == IF RLe(a, b) THEN a ELSE b

Max(a, b) == IF a >= b THEN a ELSE b
Min(a, b) == IF a <= b THEN a ELSE b

RECURSIVE SumSeq(_)
SumSeq(s) == IF s = <<>> THEN 0 ELSE Head(s) + SumSeq(Tail(s))

RECURSIVE SumSq(_)
SumSq(s) == IF s = <<>> THEN 0 ELSE Head(s) * Head(s) + SumSq(Tail(s))

\* ascending insertion of a fraction into a sorted sequence of fractions
RECURSIVE RInsert(_, _)
RInsert(x, s) ==
    IF s = <<>> THEN <<x>>
    ELSE IF RLe(x, Head(s)) THEN <<x>> \o s
    ELSE <<Head(s)>> \o RInsert(x, Tail(s))

RECURSIVE RSort(_)
RSort(s) == IF s = <<>> THEN <<>> ELSE RInsert(Head(s), RSort(Tail(s)))

\* np.median of a non-empty sequence of fractions
RMedian_Mean(s) ==
    LET F[i \in 0..Len(s)] == IF i = 0 THEN RInt(0) ELSE RAdd(F[i - 1], s[i])
    IN  RDiv(F[Len(s)], RInt(Len(s)))

RMedian(s) ==
    LET t == RSort(s)
        n == Len(t)
    IN  IF n % 2 = 1 THEN t[(n + 1) \div 2]
        ELSE RDiv(RAdd(t[n \div 2], t[n \div 2 + 1]), RInt(2))

IntsToRats(s) == [i \in 1..Len(s) |-> RInt(s[i])]

(***************************************************************************)
(* AIRuleParams (ai_report/params.py), rates in hundredths                 *)
(***************************************************************************)
DefaultParams ==
    [overspend_ratio_ok   |-> 55,
     overspend_ratio_warn |-> 70,
     expense_recent_k     |-> 3,
     savings_rate_low     |-> 10,
     savings_rate_high    |-> 30,
     fixed_cost_max_ratio |-> 40]

(***************************************************************************)
(* _recent_k: the last k entries of the chronologically sorted series.     *)
(* monthly_expense is the sequence of month totals in month order.         *)
(***************************************************************************)
_recent_k(series, k) ==
    IF Len(series) = 0 THEN series
    ELSE IF Len(series) > k
         THEN SubSeq(series, Len(series) - k + 1, Len(series))
         ELSE series

\* low = min(max(low, 0.0), 0.9)
ClampRate(r) == Min(Max(r, 0), 90)

\* if high < low: low, high = high, low
OrderRates_NoSwap(low, high) == <<low, high>>

OrderRates(low, high) == IF high < low THEN <<high, low>> ELSE <<low, high>>

\* base / (1 - rate), rate in 1/den units; None when 1 - rate <= 0
IncomeAt(base, rate, den) ==
    IF den - rate > 0 THEN RDiv(base, Rat(den - rate, den)) ELSE None

\* floor_income: None unless fixed cost and max ratio are both positive
FloorIncome(fixed, ratio) ==
    IF fixed.n > 0 /\ ratio > 0 THEN RDiv(fixed, Rat(ratio, 100)) ELSE None

\* x = max(x, floor_income) when both exist
ApplyFloor_Min(x, floor) ==
    IF floor # None /\ x # None THEN RMin(x, floor) ELSE x

ApplyFloor(x, floor) ==
    IF floor # None /\ x # None THEN RMax(x, floor) ELSE x

(***************************************************************************)
(* cv = std / (mean + 1e-9) < num/den, for whole non-negative amounts.     *)
(* With n values of sum S and sum of squares Q, std^2 = (n Q - S^2) / n^2  *)
(* and mean = S / n, so the test is                                        *)
(*     den^2 (n Q - S^2) < num^2 (S + n e)^2,   e = 1e-9.                  *)
(* The right side exceeds num^2 S^2 by a positive amount below 1 and the   *)
(* left side is a whole number, so the test is den^2 (n Q - S^2) <=        *)
(* num^2 S^2: a ratio of exactly num/den passes, and so do all-zero        *)
(* months (0 / 1e-9 = 0).                                                  *)
(***************************************************************************)
\* The test is unchanged when every amount is divided by a common divisor;
\* it is evaluated on the amounts so reduced.
RECURSIVE GcdSeq(_)
GcdSeq(s) == IF s = <<>> THEN 0 ELSE Gcd(Head(s), GcdSeq(Tail(s)))

CvBelow(recent, num, den) ==
    LET g == GcdSeq(recent)
        r == [i \in 1..Len(recent) |-> IF g = 0 THEN 0 ELSE recent[i] \div g]
        n == Len(r)
        S == SumSeq(r)
        Q == SumSq(r)
    IN  den * den * (n * Q - S * S) <= num * num * S * S

ConfidenceLabel_ByParam(recent, k) ==
    IF k >= 3 /\ CvBelow(recent, 1, 4) THEN "High"
    ELSE IF k >= 2 /\ CvBelow(recent, 2, 5) THEN "Med"
    ELSE "Low"

ConfidenceLabel(recent, k) ==
    IF Len(recent) >= 3 /\ CvBelow(recent, 1, 4) THEN "High"
    ELSE IF Len(recent) >= 2 /\ CvBelow(recent, 2, 5) THEN "Med"
    ELSE "Low"

_estimate_income_from_expense(series, fixed, p) ==
    IF Len(series) = 0
    THEN [available |-> FALSE, base_expense |-> None,
          expected_income_next_month |-> None,
          expected_income_range |-> <<None, None>>,
          confidence |-> "Low", n_recent |-> 0]
    ELSE
      LET recent == _recent_k(series, p.expense_recent_k)
          base   == RMedian(IntsToRats(recent))
          lh     == OrderRates(ClampRate(p.savings_rate_low), ClampRate(p.savings_rate_high))
          low    == lh[1]
          high   == lh[2]
          floor  == FloorIncome(fixed, p.fixed_cost_max_ratio)
          income_low  == ApplyFloor(IncomeAt(base, low, 100), floor)
          income_high == ApplyFloor(IncomeAt(base, high, 100), floor)
          \* mid_s = (low + high) / 2, in 1/200 units
          expected == ApplyFloor(IncomeAt(base, low + high, 200), floor)
      IN  [available |-> TRUE, base_expense |-> base,
           expected_income_next_month |-> expected,
           expected_income_range |-> <<income_low, income_high>>,
           confidence |-> ConfidenceLabel(recent, p.expense_recent_k),
           n_recent |-> Len(recent)]

(***************************************************************************)
(* Specification of the income estimate: arguments drawn at Init, one      *)
(* call.                                                                   *)
(***************************************************************************)
MaxMonths == 4
MaxRecentK == 4

MonthAmounts == {0, 3, 5, 7}
SeriesSet == UNION {[1..n -> MonthAmounts] : n \in 0..MaxMonths}
RateInputs == {-5, 30, 95}
FixedInputs == {RInt(0), RInt(8)}
MaxRatioInputs == {0, 40}

NoOut == [op |-> "none"]
NoRaw == [columns |-> {}, rows |-> <<>>]
NoStcArgs == [end_ts |-> 0, window_days |-> 30, baseline_months |-> 3]

InitIncome ==
    /\ budget = None
    /\ raw_df = NoRaw
    /\ session_state = <<>>
    /\ disk = <<>>
    /\ llm = <<>>
    /\ df = <<>>
    /\ date_range = <<0, 0>>
    /\ stc_args = NoStcArgs
    /\ monthly_expense \in SeriesSet
    /\ fixed_cost_est_monthly \in FixedInputs
    /\ \E k \in 1..MaxRecentK, lo \in RateInputs, hi \in RateInputs, mr \in MaxRatioInputs :
         params = [DefaultParams EXCEPT !.expense_recent_k = k,
                                        !.savings_rate_low = lo,
                                        !.savings_rate_high = hi,
                                        !.fixed_cost_max_ratio = mr]
    /\ out = NoOut

EstimateIncome ==
    /\ out.op = "none"
    /\ out' = [op |-> "income",
               income |-> _estimate_income_from_expense(monthly_expense, fixed_cost_est_monthly, params)]
    /\ UNCHANGED <<df, date_range, params, monthly_expense, fixed_cost_est_monthly, stc_args,
                   budget, raw_df, session_state, disk, llm>>

NextIncome == EstimateIncome

SpecIncome == InitIncome /\ [][NextIncome]_vars

(***************************************************************************)
(* Specification of the income estimate on amounts of the size of a        *)
(* month's spending: series over three month totals, the default rates in  *)
(* either order, with and without a fixed cost.                            *)
(***************************************************************************)
ScenarioAmounts == {1200000, 1250000, 1300000}
ScenarioSeries == UNION {[1..n -> ScenarioAmounts] : n \in 0..MaxMonths}
ScenarioRates == {10, 30}
ScenarioFixed == {RInt(0), RInt(2000000)}

InitScenario ==
    /\ budget = None
    /\ raw_df = NoRaw
    /\ session_state = <<>>
    /\ disk = <<>>
    /\ llm = <<>>
    /\ df = <<>>
    /\ date_range = <<0, 0>>
    /\ stc_args = NoStcArgs
    /\ monthly_expense \in ScenarioSeries
    /\ fixed_cost_est_monthly \in ScenarioFixed
    /\ \E k \in 1..MaxRecentK, lo \in ScenarioRates, hi \in ScenarioRates :
         params = [DefaultParams EXCEPT !.expense_recent_k = k,
                                        !.savings_rate_low = lo,
                                        !.savings_rate_high = hi]
    /\ out = NoOut

SpecScenario == InitScenario /\ [][NextIncome]_vars

(***************************************************************************)
(* Tables.  A row is [day, kind, amount_abs, category_lv1, description];   *)
(* a table is the sequence of its rows.  category_lv1 and description are  *)
(* numbered by their rank in sort order (groupby sorts its keys).          *)
(***************************************************************************)
Row(day, kind, amt, cat, desc) ==
    [day |-> day, kind |-> kind, amount_abs |-> amt, category_lv1 |-> cat, description |-> desc]

\* tmp.dropna(subset=["date"])
DropNaT(rows) == SelectSeq(rows, LAMBDA r : r.day # NaT)

\* rows with start <= date <= end
Between(rows, s, e) == SelectSeq(rows, LAMBDA r : r.day # NaT /\ r.day >= s /\ r.day <= e)

RECURSIVE SumAmt(_)
SumAmt(rows) == IF rows = <<>> THEN 0 ELSE Head(rows).amount_abs + SumAmt(Tail(rows))

\* date.dt.normalize().nunique()
DaysOf(rows) == {rows[i].day : i \in 1..Len(rows)}

CatsOf(rows) == {rows[i].category_lv1 : i \in 1..Len(rows)}

\* groupby("category_lv1")["amount_abs"].sum() at one key (0 when absent)
CatSum(rows, c) == SumAmt(SelectSeq(rows, LAMBDA r : r.category_lv1 = c))

\* sort_values(ascending=False) of a keyed series: keys by descending value,
\* equal values in key order (the series of a groupby is in key order, and
\* the sort is a function of the series alone)
RECURSIVE SortDesc_BySession(_, _)
SortDesc_BySession(keys, val) ==
    IF keys = {} THEN <<>>
    ELSE LET top == CHOOSE k \in keys :
                       \A j \in keys :
                            \/ val[k] > val[j]
                            \/ val[k] = val[j] /\ (IF out.op = "none" THEN k <= j ELSE k >= j)
         IN  <<top>> \o SortDesc_BySession(keys \ {top}, val)

RECURSIVE SortDesc(_, _)
SortDesc(keys, val) ==
    IF keys = {} THEN <<>>
    ELSE LET top == CHOOSE k \in keys :
                       \A j \in keys : val[k] > val[j] \/ (val[k] = val[j] /\ k <= j)
         IN  <<top>> \o SortDesc(keys \ {top}, val)

\* .head(n)
HeadN(s, n) == SubSeq(s, 1, Min(n, Len(s)))

\* ascending list of a set of integers
RECURSIVE SortAsc(_)
SortAsc(S) ==
    IF S = {} THEN <<>>
    ELSE LET m == CHOOSE x \in S : \A y \in S : x <= y
         IN  <<m>> \o SortAsc(S \ {m})

(***************************************************************************)
(* Calendar of the year: _month_key (to_period("M")) and dt.weekday        *)
(***************************************************************************)
MonthFirstDay == <<0, 31, 59, 90, 120, 151, 181, 212, 243, 273, 304, 334, 365>>

\* month number 1..12 of a day of the year
_month_key(d) == CHOOSE m \in 1..12 : MonthFirstDay[m] <= d /\ d < MonthFirstDay[m + 1]

\* 0 = Monday ... 6 = Sunday; day 0 is a Wednesday
Weekday(d) == (d + 2) % 7
IsWeekend(d) == Weekday(d) \in {5, 6}

(***************************************************************************)
(* _compute_short_term_compare                                             *)
(***************************************************************************)
\* prev_ok = prev_days >= max(10, window_days // 3)
PrevOk(prev_days, window_days) == prev_days >= Max(10, window_days \div 3)

\* months of the data strictly before the month of end_ts, then the last
\* baseline_months of them
UseMonths_UpToEndMonth(months, end_month, baseline_months) ==
    LET full_months == SortAsc({m \in months : m <= end_month})
    IN  IF Len(full_months) > baseline_months
        THEN SubSeq(full_months, Len(full_months) - baseline_months + 1, Len(full_months))
        ELSE full_months

UseMonths(months, end_month, baseline_months) ==
    LET full_months == SortAsc({m \in months : m < end_month})
    IN  IF Len(full_months) > baseline_months
        THEN SubSeq(full_months, Len(full_months) - baseline_months + 1, Len(full_months))
        ELSE full_months

\* total / days of one month of the data
MonthDailyAvg(rows, m) ==
    LET m_df == SelectSeq(rows, LAMBDA r : _month_key(r.day) = m)
    IN  Rat(SumAmt(m_df), Cardinality(DaysOf(m_df)))

\* the if / elif / elif / else of the baseline choice
SelectBaseline_MonthsFirst(prev_ok, month_ok, overall_ok) ==
    IF month_ok THEN "recent_full_months_daily_median"
    ELSE IF prev_ok THEN "previous_window"
    ELSE IF overall_ok THEN "overall_daily_median"
    ELSE "none"

SelectBaseline(prev_ok, month_ok, overall_ok) ==
    IF prev_ok THEN "previous_window"
    ELSE IF month_ok THEN "recent_full_months_daily_median"
    ELSE IF overall_ok THEN "overall_daily_median"
    ELSE "none"

BaselineConfidence(used) ==
    IF used = "previous_window" THEN "High"
    ELSE IF used = "recent_full_months_daily_median" THEN "Medium"
    ELSE "Low"

\* base_amt of one category of the current window
CatBaseAmt_Always(used, prev, cat) == RInt(CatSum(prev, cat))

CatBaseAmt(used, prev, cat) ==
    IF used = "previous_window" THEN RInt(CatSum(prev, cat)) ELSE None

\* weekday_diff / weekend_diff
WeekpartDiff(used, cur_part, prev_part) ==
    IF used = "previous_window" THEN RInt(cur_part - prev_part) ELSE None

CatDelta(used, prev, cat, cur_amt) ==
    LET base_amt == CatBaseAmt(used, prev, cat)
    IN  [category_lv1 |-> cat,
         current  |-> cur_amt,
         baseline |-> base_amt,
         diff     |-> IF base_amt # None THEN RSub(RInt(cur_amt), base_amt) ELSE None,
         pct      |-> IF base_amt = None \/ base_amt.n = 0 THEN None
                      ELSE RDiv(RSub(RInt(cur_amt), base_amt), base_amt),
         baseline_reliable |-> (used = "previous_window")]

_compute_short_term_compare(df_expense_all, end_ts, window_days, baseline_months, top_n) ==
    IF Len(df_expense_all) = 0
    THEN [available |-> FALSE, reason |-> "no expense data"]
    ELSE
      LET tmp       == DropNaT(df_expense_all)
          cur_start == end_ts - (window_days - 1)
          cur       == Between(tmp, cur_start, end_ts)
          cur_total == SumAmt(cur)
          cur_weekday_total == SumAmt(SelectSeq(cur, LAMBDA r : ~IsWeekend(r.day)))
          cur_weekend_total == SumAmt(SelectSeq(cur, LAMBDA r : IsWeekend(r.day)))
          cur_cat   == [c \in CatsOf(cur) |-> CatSum(cur, c)]
          cur_top   == HeadN(SortDesc(CatsOf(cur), cur_cat), top_n)
          prev_end   == cur_start - 1
          prev_start == prev_end - (window_days - 1)
          prev       == Between(tmp, prev_start, prev_end)
          prev_days  == Cardinality(DaysOf(prev))
          prev_total == SumAmt(prev)
          prev_weekday_total == SumAmt(SelectSeq(prev, LAMBDA r : ~IsWeekend(r.day)))
          prev_weekend_total == SumAmt(SelectSeq(prev, LAMBDA r : IsWeekend(r.day)))
          prev_ok    == PrevOk(prev_days, window_days)
          months     == {_month_key(d) : d \in DaysOf(tmp)}
          use_months == UseMonths(months, _month_key(end_ts), baseline_months)
          month_daily_avgs == [i \in 1..Len(use_months) |-> MonthDailyAvg(tmp, use_months[i])]
          month_ok   == Len(month_daily_avgs) >= 2
          days       == SortAsc(DaysOf(tmp))
          daily_total == [i \in 1..Len(days) |->
                            RInt(SumAmt(SelectSeq(tmp, LAMBDA r : r.day = days[i])))]
          overall_ok == Len(daily_total) >= 14
          used       == SelectBaseline(prev_ok, month_ok, overall_ok)
          baseline_total ==
              IF used = "previous_window" THEN RInt(prev_total)
              ELSE IF used = "recent_full_months_daily_median"
                   THEN RMul(RMedian(month_daily_avgs), RInt(window_days))
              ELSE RMul(RMedian(daily_total), RInt(window_days))
          diff == RSub(RInt(cur_total), baseline_total)
      IN  IF used = "none"
          THEN [available |-> FALSE, reason |-> "insufficient data for a baseline"]
          ELSE [available |-> TRUE,
                window   |-> [days |-> window_days, start |-> cur_start, end |-> end_ts,
                              days_with_data |-> Cardinality(DaysOf(cur))],
                current  |-> [total |-> cur_total,
                              weekday_total |-> cur_weekday_total,
                              weekend_total |-> cur_weekend_total,
                              top_categories |-> [i \in 1..Len(cur_top) |->
                                                    <<cur_top[i], cur_cat[cur_top[i]]>>]],
                baseline |-> [used |-> used,
                              total_for_window |-> baseline_total,
                              months_used |-> IF used = "recent_full_months_daily_median"
                                              THEN use_months ELSE <<>>,
                              confidence |-> BaselineConfidence(used)],
                change   |-> [diff |-> diff,
                              pct  |-> IF baseline_total.n = 0 THEN None
                                       ELSE RDiv(diff, baseline_total),
                              weekday_diff |-> WeekpartDiff(used, cur_weekday_total, prev_weekday_total),
                              weekend_diff |-> WeekpartDiff(used, cur_weekend_total, prev_weekend_total)],
                category_deltas_top |->
                    [i \in 1..Len(cur_top) |-> CatDelta(used, prev, cur_top[i], cur_cat[cur_top[i]])]]

(***************************************************************************)
(* Specification of the short-term comparison: an expense history made of  *)
(* up to two runs of consecutive days (one row a day, one category per     *)
(* run, the run's amount on weekdays and one unit more at weekends; runs   *)
(* may overlap), and the call's arguments, drawn at Init; one call.        *)
(***************************************************************************)
NumCats == 2
MaxBaselineMonths == 3

RunStarts  == {0, 25, 45, 62, 92}
RunLengths == {1, 9, 10, 14}
RunAmounts == {1, 3}
EndDays    == {75, 100}
WindowDaysInputs == {30, 36}

Runs == [start : RunStarts, len : RunLengths, amt : RunAmounts, cat : 1..NumCats]

RunRows(r) ==
    [i \in 1..r.len |->
        Row(r.start + i - 1, "expense",
            IF IsWeekend(r.start + i - 1) THEN r.amt + 1 ELSE r.amt, r.cat, r.cat)]

Histories ==
    {<<>>} \cup {RunRows(r) : r \in Runs}
           \cup {RunRows(rr[1]) \o RunRows(rr[2]) :
                   rr \in {p \in Runs \X Runs : p[1].start <= p[2].start}}

InitCompare ==
    /\ budget = None
    /\ raw_df = NoRaw
    /\ session_state = <<>>
    /\ disk = <<>>
    /\ llm = <<>>
    /\ df \in Histories
    /\ date_range = <<0, 0>>
    /\ params = DefaultParams
    /\ monthly_expense = <<>>
    /\ fixed_cost_est_monthly = RInt(0)
    /\ stc_args \in [end_ts : EndDays, window_days : WindowDaysInputs,
                     baseline_months : 1..MaxBaselineMonths]
    /\ out = NoOut

ShortTermCompare ==
    /\ out.op = "none"
    /\ out' = [op |-> "short_term_compare",
               stc |-> _compute_short_term_compare(df, stc_args.end_ts, stc_args.window_days,
                                                    stc_args.baseline_months, 3)]
    /\ UNCHANGED <<df, date_range, params, monthly_expense, fixed_cost_est_monthly, stc_args,
                   budget, raw_df, session_state, disk, llm>>

NextCompare == ShortTermCompare

SpecCompare == InitCompare /\ [][NextCompare]_vars

(***************************************************************************)
(* build_ai_summary and its helpers                                        *)
(***************************************************************************)
\* _days_in_range
_days_in_range(start_ts, end_ts) == (end_ts - start_ts) + 1

MonthsOf(rows) == {_month_key(rows[i].day) : i \in 1..Len(rows)}

\* groupby("month")["amount_abs"].sum().sort_index()
MonthlySeries(rows) ==
    LET ms == SortAsc(MonthsOf(rows))
    IN  [i \in 1..Len(ms) |->
            [month  |-> ms[i],
             amount |-> SumAmt(SelectSeq(rows, LAMBDA r : _month_key(r.day) = ms[i]))]]

_calc_mom_change_Zero(monthly_series) ==
    IF Len(monthly_series) < 2
    THEN [available |-> TRUE, current_month |-> None, prev_month |-> None,
          current_amount |-> None, prev_amount |-> None, change_rate |-> RInt(0)]
    ELSE LET n      == Len(monthly_series)
             cur_v  == monthly_series[n].amount
             prev_v == monthly_series[n - 1].amount
         IN  [available |-> TRUE,
              current_month  |-> RInt(monthly_series[n].month),
              prev_month     |-> RInt(monthly_series[n - 1].month),
              current_amount |-> RInt(cur_v),
              prev_amount    |-> RInt(prev_v),
              change_rate    |-> IF prev_v = 0 THEN None ELSE Rat(cur_v - prev_v, prev_v)]

_calc_mom_change(monthly_series) ==
    IF Len(monthly_series) < 2
    THEN [available |-> FALSE, current_month |-> None, prev_month |-> None,
          current_amount |-> None, prev_amount |-> None, change_rate |-> None]
    ELSE LET n      == Len(monthly_series)
             cur_v  == monthly_series[n].amount
             prev_v == monthly_series[n - 1].amount
         IN  [available |-> TRUE,
              current_month  |-> RInt(monthly_series[n].month),
              prev_month     |-> RInt(monthly_series[n - 1].month),
              current_amount |-> RInt(cur_v),
              prev_amount    |-> RInt(prev_v),
              change_rate    |-> IF prev_v = 0 THEN None ELSE Rat(cur_v - prev_v, prev_v)]

\* df_expense.loc[df_expense["amount_abs"].idxmax()]: the first row holding
\* the largest amount
MaxExpenseTx(rows) ==
    IF Len(rows) = 0 THEN [none |-> TRUE]
    ELSE rows[CHOOSE i \in 1..Len(rows) :
                 /\ \A j \in 1..Len(rows) : rows[j].amount_abs <= rows[i].amount_abs
                 /\ \A j \in 1..(i - 1) : rows[j].amount_abs < rows[i].amount_abs]

\* top_cat.head(n).to_dict(), as the list of <<category, sum>> in order
TopCategories(rows, n) ==
    LET sums == [c \in CatsOf(rows) |-> CatSum(rows, c)]
        top  == HeadN(SortDesc(CatsOf(rows), sums), n)
    IN  [i \in 1..Len(top) |-> <<top[i], sums[top[i]]>>]

\* the period aggregates of the rows handed in as df_expense_filtered
ExpenseAggregates(df_expense, start_ts, end_ts) ==
    LET total_expense == SumAmt(df_expense)
        days_total    == _days_in_range(start_ts, end_ts)
        monthly       == MonthlySeries(df_expense)
    IN  [total_expense     |-> total_expense,
         days_in_range     |-> days_total,
         avg_daily_expense |-> IF days_total > 0 THEN Rat(total_expense, days_total) ELSE None,
         avg_weekly_expense |-> IF days_total > 0 THEN Rat(7 * total_expense, days_total) ELSE None,
         avg_monthly_expense |-> IF Len(monthly) > 0 THEN Rat(total_expense, Len(monthly)) ELSE None,
         monthly_expense   |-> monthly,
         mom_change        |-> _calc_mom_change(monthly),
         top_categories_top5 |-> TopCategories(df_expense, 5),
         overspend_top3    |-> TopCategories(df_expense, 3),
         max_expense_tx    |-> MaxExpenseTx(df_expense)]

\* descending order of keys by a fraction-valued series, equal values in
\* key order
RECURSIVE SortDescR(_, _)
SortDescR(keys, val) ==
    IF keys = {} THEN <<>>
    ELSE LET top == CHOOSE k \in keys :
                       \A j \in keys : RLt(val[j], val[k]) \/ (REq(val[k], val[j]) /\ k <= j)
         IN  <<top>> \o SortDescR(keys \ {top}, val)

FixedMinMonths == 3
FixedTopN == 10

\* fixed candidates: descriptions seen in >= 3 months of the period, the
\* first 10 by month count, then their mean amounts in descending order
FixedCandidates_TwoMonths(df_expense_period) ==
    LET descs == {df_expense_period[i].description : i \in 1..Len(df_expense_period)}
        OfDesc(x) == SelectSeq(df_expense_period, LAMBDA r : r.description = x)
        rep  == [x \in descs |-> Cardinality(MonthsOf(OfDesc(x)))]
        fixed_desc == HeadN(SelectSeq(SortDesc(descs, rep), LAMBDA x : rep[x] >= 2),
                            FixedTopN)
        fset == {fixed_desc[i] : i \in 1..Len(fixed_desc)}
        mean == [x \in fset |-> Rat(SumAmt(OfDesc(x)), Len(OfDesc(x)))]
        top  == HeadN(SortDescR(fset, mean), FixedTopN)
    IN  [i \in 1..Len(top) |-> <<top[i], mean[top[i]]>>]

FixedCandidates(df_expense_period) ==
    LET descs == {df_expense_period[i].description : i \in 1..Len(df_expense_period)}
        OfDesc(x) == SelectSeq(df_expense_period, LAMBDA r : r.description = x)
        rep  == [x \in descs |-> Cardinality(MonthsOf(OfDesc(x)))]
        fixed_desc == HeadN(SelectSeq(SortDesc(descs, rep), LAMBDA x : rep[x] >= FixedMinMonths),
                            FixedTopN)
        fset == {fixed_desc[i] : i \in 1..Len(fixed_desc)}
        mean == [x \in fset |-> Rat(SumAmt(OfDesc(x)), Len(OfDesc(x)))]
        top  == HeadN(SortDescR(fset, mean), FixedTopN)
    IN  [i \in 1..Len(top) |-> <<top[i], mean[top[i]]>>]

RECURSIVE SumSecond(_)
SumSecond(pairs) ==
    IF pairs = <<>> THEN RInt(0) ELSE RAdd(Head(pairs)[2], SumSecond(Tail(pairs)))

\* spend_ratio: None when the expected income is missing or not positive
SpendRatio(total_expense, expected) ==
    IF expected = None \/ expected.n <= 0 THEN None
    ELSE RDiv(RInt(total_expense), expected)

\* spend_judgement; the thresholds are hundredths.  "undetermined" is
\* the label of features.py:543, "ok" / "warning" / "critical" those of
\* lines 547, 549, 551.
SpendJudgement_NoneOnly(total_expense, expected, p) ==
    IF expected = None THEN "undetermined"
    ELSE IF 100 * total_expense * expected.d < p.overspend_ratio_ok * expected.n THEN "ok"
    ELSE IF 100 * total_expense * expected.d < p.overspend_ratio_warn * expected.n THEN "warning"
    ELSE "critical"

SpendJudgement(total_expense, expected, p) ==
    IF expected = None \/ expected.n <= 0 THEN "undetermined"
    ELSE IF 100 * total_expense * expected.d < p.overspend_ratio_ok * expected.n THEN "ok"
    ELSE IF 100 * total_expense * expected.d < p.overspend_ratio_warn * expected.n THEN "warning"
    ELSE "critical"

BudgetTargetRatio == 55
BudgetTopN == 8

\* insertion of x into a sequence sorted by descending recommended_budget,
\* after the entries that compare equal (list.sort is stable)
RECURSIVE InsertByBudget(_, _)
InsertByBudget(x, s) ==
    IF s = <<>> THEN <<x>>
    ELSE IF RLt(Head(s).recommended_budget, x.recommended_budget) THEN <<x>> \o s
    ELSE <<Head(s)>> \o InsertByBudget(x, Tail(s))

RECURSIVE SortByBudget(_)
SortByBudget(s) ==
    IF s = <<>> THEN <<>>
    ELSE InsertByBudget(s[Len(s)], SortByBudget(SubSeq(s, 1, Len(s) - 1)))

\* a share of 0 / 0 is NaN; every number derived from it is NaN
NaN == [n |-> 1, d |-> 0]

\* variable_budget = max(0.0, budget_total - fixed_cost_est_monthly)
VariableBudget_Unclamped(budget_total, fixed) == RSub(budget_total, fixed)

VariableBudget(budget_total, fixed) == RMax(RInt(0), RSub(budget_total, fixed))

_compute_budget_recommendation(df_expense_filtered, budget_total, fixed, top_n) ==
    IF budget_total = None \/ budget_total.n <= 0 THEN <<>>
    ELSE IF Len(df_expense_filtered) = 0 THEN <<>>
    ELSE
      LET variable_budget == VariableBudget(budget_total, fixed)
          tmp     == DropNaT(df_expense_filtered)
          months_sorted == SortAsc(MonthsOf(tmp))
          recent_months ==
              IF Len(months_sorted) >= 3
              THEN SubSeq(months_sorted, Len(months_sorted) - 2, Len(months_sorted))
              ELSE months_sorted
          recent  == SelectSeq(tmp, LAMBDA r :
                         \E i \in 1..Len(recent_months) : recent_months[i] = _month_key(r.day))
          sums    == [c \in CatsOf(recent) |-> CatSum(recent, c)]
          cats    == HeadN(SortDesc(CatsOf(recent), sums), top_n)
          cat_total == SumSeq([i \in 1..Len(cats) |-> sums[cats[i]]])
          RowOf(c) ==
              LET cur == CatSum(tmp, c)
                  rec == IF cat_total = 0 THEN NaN
                         ELSE RMul(variable_budget, Rat(sums[c], cat_total))
              IN  [category_lv1 |-> c,
                   recommended_budget |-> rec,
                   current_spend |-> cur,
                   diff |-> IF rec = NaN THEN NaN ELSE RSub(rec, RInt(cur))]
          rows == [i \in 1..Len(cats) |-> RowOf(cats[i])]
      IN  IF Len(months_sorted) = 0 \/ Len(recent) = 0 \/ Len(cats) = 0 THEN <<>>
          \* no comparison with NaN is true: the sort moves nothing
          ELSE IF cat_total = 0 THEN rows
          ELSE SortByBudget(rows)

build_ai_summary(df_all, df_expense_filtered, start_ts, end_ts, p) ==
    LET work        == DropNaT(df_all)
        work_period == Between(work, start_ts, end_ts)
        df_expense_period == SelectSeq(work_period, LAMBDA r : r.kind = "expense")
        df_expense  == DropNaT(df_expense_filtered)
        agg         == ExpenseAggregates(df_expense, start_ts, end_ts)
        total_expense == agg.total_expense
        fixed_candidates == FixedCandidates(df_expense_period)
        fixed_cost  == SumSecond(fixed_candidates)
        income_est  == _estimate_income_from_expense(
                           [i \in 1..Len(agg.monthly_expense) |-> agg.monthly_expense[i].amount],
                           fixed_cost, p)
        expected    == income_est.expected_income_next_month
        budget_total == IF expected = None THEN None
                        ELSE RMul(expected, Rat(BudgetTargetRatio, 100))
        df_expense_all == SelectSeq(work, LAMBDA r : r.kind = "expense")
    IN  [period  |-> [start |-> start_ts, end |-> end_ts],
         income  |-> income_est,
         expense |-> [agg               |-> agg,
                      spend_ratio       |-> SpendRatio(total_expense, expected),
                      spend_judgement   |-> SpendJudgement(total_expense, expected, p),
                      fixed_candidates  |-> fixed_candidates,
                      fixed_cost_est_monthly |-> fixed_cost,
                      fixed_cost_ratio_est |-> IF total_expense > 0
                                               THEN RDiv(fixed_cost, RInt(total_expense))
                                               ELSE None,
                      budget_total      |-> budget_total,
                      budget_variable   |-> IF budget_total = None THEN None
                                            ELSE VariableBudget(budget_total, fixed_cost),
                      budget_recommendation |->
                          IF expected = None THEN <<>>
                          ELSE _compute_budget_recommendation(df_expense, budget_total,
                                                              fixed_cost, BudgetTopN)],
         params  |-> p,
         short_term_compare |-> _compute_short_term_compare(df_expense_all, end_ts, 30, 3, 3),
         \* the rows the expense aggregates were computed from (df_expense)
         df_expense |-> df_expense]

(***************************************************************************)
(* The AI-report page: the active table, the date picker and the two       *)
(* threshold sliders of the sidebar, and the two report buttons.           *)
(***************************************************************************)
\* df[df["is_expense"]] of build_sidebar
ExpenseRows(rows) == SelectSeq(rows, LAMBDA r : r.kind = "expense")

ValidDays(rows) == {rows[i].day : i \in {j \in 1..Len(rows) : rows[j].day # NaT}}

MinDay(rows) == CHOOSE d \in ValidDays(rows) : \A e \in ValidDays(rows) : d <= e
MaxDay(rows) == CHOOSE d \in ValidDays(rows) : \A e \in ValidDays(rows) : d >= e

\* generate_ai_report_all
ReportAll(rows, range, p) ==
    build_ai_summary(rows, ExpenseRows(rows), range[1], range[2], p)

\* generate_ai_report_last_30_days: the 30 days up to the latest date
ReportShort(rows, p) ==
    LET all        == DropNaT(rows)
        end_date   == MaxDay(all)
        start_date == end_date - 29
        df_30      == Between(all, start_date, end_date)
    IN  build_ai_summary(all, df_30, start_date, end_date, p)

MaxRows == 3

\* the rows an active table is made of, in table order
PoolRows ==
    << Row(20, "expense",  4, 1, 1),
       Row(45, "expense",  2, 2, 1),
       Row(70, "income",   5, 1, 2),
       Row(72, "transfer", 2, 2, 3),
       Row(75, "expense",  0, 1, 1) >>

RECURSIVE PickRows(_, _)
PickRows(S, i) ==
    IF i > Len(PoolRows) THEN <<>>
    ELSE (IF i \in S THEN <<PoolRows[i]>> ELSE <<>>) \o PickRows(S, i + 1)

ActiveTables ==
    {PickRows(S, 1) : S \in {T \in SUBSET (1..Len(PoolRows)) :
                                 Cardinality(T) >= 1 /\ Cardinality(T) <= MaxRows}}

OkInputs   == {55, 80}
WarnInputs == {80, 100}

InitSummary ==
    /\ budget = None
    /\ raw_df = NoRaw
    /\ session_state = <<>>
    /\ disk = <<>>
    /\ llm = <<>>
    /\ df \in ActiveTables
    /\ date_range = <<MinDay(df), MaxDay(df)>>
    /\ params = DefaultParams
    /\ monthly_expense = <<>>
    /\ fixed_cost_est_monthly = RInt(0)
    /\ stc_args = NoStcArgs
    /\ out = NoOut

\* the date picker: any start <= end between the table's first and last day
PickDateRange ==
    \E s \in ValidDays(df), e \in ValidDays(df) :
        /\ s <= e
        /\ date_range' = <<s, e>>
        /\ UNCHANGED <<df, params, monthly_expense, fixed_cost_est_monthly, stc_args,
                   budget, raw_df, session_state, disk, llm, out>>

SetOverspendOk ==
    \E v \in OkInputs :
        /\ params' = [params EXCEPT !.overspend_ratio_ok = v]
        /\ UNCHANGED <<df, date_range, monthly_expense, fixed_cost_est_monthly, stc_args,
                   budget, raw_df, session_state, disk, llm, out>>

SetOverspendWarn ==
    \E v \in WarnInputs :
        /\ params' = [params EXCEPT !.overspend_ratio_warn = v]
        /\ UNCHANGED <<df, date_range, monthly_expense, fixed_cost_est_monthly, stc_args,
                   budget, raw_df, session_state, disk, llm, out>>

GenerateAll ==
    /\ out' = [op |-> "all", summary |-> ReportAll(df, date_range, params)]
    /\ UNCHANGED <<df, date_range, params, monthly_expense, fixed_cost_est_monthly, stc_args,
                   budget, raw_df, session_state, disk, llm>>

GenerateShort ==
    /\ out' = [op |-> "short", summary |-> ReportShort(df, params)]
    /\ UNCHANGED <<df, date_range, params, monthly_expense, fixed_cost_est_monthly, stc_args,
                   budget, raw_df, session_state, disk, llm>>

ClearReports ==
    /\ out.op # "none"
    /\ out' = NoOut
    /\ UNCHANGED <<df, date_range, params, monthly_expense, fixed_cost_est_monthly, stc_args,
                   budget, raw_df, session_state, disk, llm>>

NextSummary ==
    \/ PickDateRange
    \/ SetOverspendOk
    \/ SetOverspendWarn
    \/ GenerateAll
    \/ GenerateShort
    \/ ClearReports

SpecSummary == InitSummary /\ [][NextSummary]_vars

(***************************************************************************)
(* Specification of the full-period report over tables of recurring        *)
(* payments.  Description x (1..n) is paid once a month, on day x + 1 of   *)
(* the month, in the first c(x) months of the year; its amount grows by    *)
(* one a month from a start given by the amount pattern; the odd           *)
(* descriptions are of category 1, the even ones of category 3.  The       *)
(* descriptions up to a split point share one month count, the others a    *)
(* second one.                                                             *)
(* The table may go on with three months of zero-amount rows.  The period  *)
(* window starts in January or in February and ends with May.              *)
(***************************************************************************)
MaxDescs == 11

MonthCounts == {2, 3, 4, 5}
AmountPatterns == {"rising", "falling", "flat"}
FixedWindows == {<<0, 150>>, <<31, 150>>}

StartAmount(pattern, n, x) ==
    IF pattern = "rising" THEN x
    ELSE IF pattern = "falling" THEN n + 1 - x
    ELSE 5

\* the rows of description x, month after month
PaymentRows(x, c, a) ==
    [m \in 1..c |-> Row(MonthFirstDay[m] + x, "expense", a + m - 1,
                        IF x % 2 = 1 THEN 1 ELSE 3, x)]

RECURSIVE PaymentTable(_, _, _, _, _, _)
PaymentTable(x, n, split, c1, c2, pattern) ==
    IF x > n THEN <<>>
    ELSE PaymentRows(x, IF x <= split THEN c1 ELSE c2, StartAmount(pattern, n, x))
            \o PaymentTable(x + 1, n, split, c1, c2, pattern)

\* three later months, after the window, with one expense row of amount 0
\* each
ZeroMonths ==
    << Row(MonthFirstDay[6],     "expense", 0, 2, MaxDescs + 1),
       Row(MonthFirstDay[7] + 1, "expense", 0, 2, MaxDescs + 1),
       Row(MonthFirstDay[8] + 2, "expense", 0, 2, MaxDescs + 1) >>

PaymentTables ==
    {PaymentTable(1, n, split, c1, c2, pattern) \o tail :
        n \in 1..MaxDescs, split \in 0..MaxDescs, c1 \in MonthCounts, c2 \in MonthCounts,
        pattern \in AmountPatterns, tail \in {<<>>, ZeroMonths}}

InitFixed ==
    /\ budget = None
    /\ raw_df = NoRaw
    /\ session_state = <<>>
    /\ disk = <<>>
    /\ llm = <<>>
    /\ df \in PaymentTables
    /\ date_range \in FixedWindows
    /\ params = DefaultParams
    /\ monthly_expense = <<>>
    /\ fixed_cost_est_monthly = RInt(0)
    /\ stc_args = NoStcArgs
    /\ out = NoOut

NextFixed == GenerateAll

SpecFixed == InitFixed /\ [][NextFixed]_vars

(***************************************************************************)
(* Specification of the budget recommendation: a table of at most MaxRows  *)
(* rows, a budget total and a fixed cost drawn at Init; one call.          *)
(***************************************************************************)
BudgetPool ==
    << Row(20,  "expense", 4, 1, 1),
       Row(45,  "expense", 2, 2, 1),
       Row(75,  "expense", 0, 1, 1),
       Row(100, "expense", 6, 3, 2),
       Row(NaT, "expense", 3, 2, 1),
       Row(130, "expense", 1, 2, 2) >>

\* the rows of a pool at the positions S, in pool order
SubTable(pool, S) ==
    LET idx == SortAsc(S)
    IN  [i \in 1..Len(idx) |-> pool[idx[i]]]

BudgetTables ==
    {SubTable(BudgetPool, S) :
        S \in {T \in SUBSET (1..Len(BudgetPool)) : Cardinality(T) <= MaxRows}}

BudgetInputs == {None, RInt(-5), RInt(0), RInt(10), Rat(33, 4)}
BudgetFixedInputs == {RInt(0), RInt(4), RInt(20)}

InitBudget ==
    /\ df \in BudgetTables
    /\ budget \in BudgetInputs
    /\ fixed_cost_est_monthly \in BudgetFixedInputs
    /\ date_range = <<0, 0>>
    /\ params = DefaultParams
    /\ monthly_expense = <<>>
    /\ stc_args = NoStcArgs
    /\ raw_df = NoRaw
    /\ session_state = <<>>
    /\ disk = <<>>
    /\ llm = <<>>
    /\ out = NoOut

RecommendBudget ==
    /\ out.op = "none"
    /\ out' = [op |-> "budget",
               rows |-> _compute_budget_recommendation(df, budget, fixed_cost_est_monthly,
                                                       BudgetTopN)]
    /\ UNCHANGED <<df, date_range, params, monthly_expense, fixed_cost_est_monthly, stc_args,
                   budget, raw_df, session_state, disk, llm>>

NextBudget == RecommendBudget

SpecBudget == InitBudget /\ [][NextBudget]_vars

(***************************************************************************)
(* run_preprocess (expense_preprocess/preprocess.py)                       *)
(*                                                                         *)
(* Text is a sequence of characters, one string a character; a Hangul      *)
(* syllable is one character, written as "_" and its romanization          *)
(* ("_i", "_che" for the two syllables of the word for a transfer).  A     *)
(* missing cell reads "nan", as astype(str) gives it.  A date cell is the  *)
(* day its text denotes, or NaT when pd.to_datetime cannot parse it.  The  *)
(* raw table is what _load returns: the header (column names after the     *)
(* BOM and blanks are removed) and the rows, a row holding a cell for      *)
(* every column the model knows; a cell of a column that is not in the     *)
(* header is not read.  The time, currency and category_lv2 columns are    *)
(* left out.                                                               *)
(***************************************************************************)
column_aliases ==
    [date           |-> <<"_nal_jja", "date", "Date">>,
     type           |-> <<"_ta_ib", "type", "_gu_bun">>,
     category_lv1   |-> <<"_dae_bun_ryu", "category", "_ka_te_go_ri">>,
     description    |-> <<"_nae_yong", "description", "_jeog_yo", "_me_mo">>,
     amount         |-> <<"_geum_aeg", "amount", "_geum_aeg(won)", "price">>,
     payment_method |-> <<"_gyeol_je_su_dan", "payment", "_gyeol_je_bang_beob">>]

\* found_std_cols: the standard columns one of whose aliases is in the header
FoundStdCols(columns) ==
    {std \in DOMAIN column_aliases :
        \E k \in 1..Len(column_aliases[std]) : column_aliases[std][k] \in columns}

required == {"date", "amount"}

\* not required.issubset(found_std_cols)
MissingRequired_DateOnly(found) == "date" \notin found

MissingRequired(found) == ~(required \subseteq found)

transfer_kw ==
    { <<"_i", "_che">>, <<"_song", "_geum">>, <<"_gye", "_jwa", "_i", "_che">>,
      <<"_nae", "_gye", "_jwa">>, <<"t", "r", "a", "n", "s", "f", "e", "r">>,
      <<"r", "e", "m", "i", "t">> }

income_kw ==
    { <<"_su", "_ip">>, <<"_ip", "_geum">>, <<"_geub", "_yeo">>, <<"_wol", "_geub">>,
      <<"_hwan", "_geub">>, <<"_jeong", "_san">>, <<"_bo", "_neo", "_seu">>,
      <<"_sang", "_yeo">>, <<"_i", "_ja">>, <<"_bae", "_dang">>,
      <<"_kae", "_si", "_baeg">> }

expense_kw ==
    { <<"_ji", "_chul">>, <<"_chul", "_geum">>, <<"_gyeol", "_je">>, <<"_sa", "_yong">>,
      <<"_seung", "_in">>, <<"_gu", "_mae">>, <<"_nab", "_bu">>,
      <<"_ja", "_dong", "_i", "_che">> }

\* case folding (case=False) of the Latin letters of the keywords
Lower(c) ==
    LET LatinUpper == <<"T", "R", "A", "N", "S", "F", "E", "M", "I">>
        LatinLower == <<"t", "r", "a", "n", "s", "f", "e", "m", "i">>
    IN  IF \E k \in 1..Len(LatinUpper) : LatinUpper[k] = c
        THEN LatinLower[CHOOSE k \in 1..Len(LatinUpper) : LatinUpper[k] = c]
        ELSE c

\* text.str.contains(kw, case=False) for the alternation kws
StrContains(text, kws) ==
    \E kw \in kws : \E i \in 1..(Len(text) - Len(kw) + 1) :
        \A j \in 1..Len(kw) : Lower(text[i + j - 1]) = kw[j]

\* str.strip()
RECURSIVE LStrip(_)
LStrip(s) == IF s # <<>> /\ Head(s) = " " THEN LStrip(Tail(s)) ELSE s

RECURSIVE Strip(_)
Strip(s) ==
    IF LStrip(s) # <<>> /\ LStrip(s)[Len(LStrip(s))] = " "
    THEN Strip(SubSeq(LStrip(s), 1, Len(LStrip(s)) - 1))
    ELSE LStrip(s)

Digits == <<"0", "1", "2", "3", "4", "5", "6", "7", "8", "9">>
IsDigit(c) == \E k \in 1..10 : Digits[k] = c

\* the amount text after the replacements of lines 170-178
CleanAmount(s) ==
    LET paren == IF Len(s) >= 2 /\ s[1] = "(" /\ s[Len(s)] = ")"
                 THEN <<"-">> \o SubSeq(s, 2, Len(s) - 1) ELSE s
    IN  SelectSeq(paren, LAMBDA c : IsDigit(c) \/ c \in {"-", ".", "+"})

\* pd.to_numeric(errors="coerce") on text made of digits and signs: the
\* whole number, or NaN.  (No amount drawn here has a decimal point.)
ToNumeric(s) ==
    LET signed == s # <<>> /\ Head(s) \in {"-", "+"}
        body   == IF signed THEN Tail(s) ELSE s
        val[i \in 0..Len(body)] ==
            IF i = 0 THEN 0
            ELSE 10 * val[i - 1] + (CHOOSE k \in 0..9 : Digits[k + 1] = body[i])
    IN  IF body = <<>> \/ \E i \in 1..Len(body) : ~IsDigit(body[i]) THEN NaN
        ELSE RInt(IF signed /\ Head(s) = "-" THEN 0 - val[Len(body)] ELSE val[Len(body)])

\* the type of one row: transfer > income > expense keywords, then the sign
\* of the amount ("expense", "income", "transfer" stand for the three
\* Korean type values)
InferType_IncomeFirst(text, amount) ==
    IF StrContains(text, income_kw) THEN "income"
    ELSE IF StrContains(text, transfer_kw) THEN "transfer"
    ELSE IF StrContains(text, expense_kw) THEN "expense"
    ELSE IF amount < 0 THEN "expense"
    ELSE "income"

InferType(text, amount) ==
    IF StrContains(text, transfer_kw) THEN "transfer"
    ELSE IF StrContains(text, income_kw) THEN "income"
    ELSE IF StrContains(text, expense_kw) THEN "expense"
    ELSE IF amount < 0 THEN "expense"
    ELSE "income"

NanText == <<"n", "a", "n">>
NoneText == <<"N", "o", "n", "e">>
Etc == <<"_gi", "_ta">>

\* the characters of the texts that are not Hangul syllables
AsciiChars ==
    {" ", "-", "+", ".", ",", "(", ")"}
        \cup {Digits[k] : k \in 1..10}
        \cup {"a", "b", "e", "f", "i", "m", "n", "o", "r", "s", "t"}
        \cup {"A", "E", "F", "I", "M", "N", "R", "S", "T"}

\* a Hangul syllable (the class of the pattern of line 273)
IsHangul(c) == c \notin AsciiChars

\* re.sub of line 273: an optional "_to" "_seu" and blanks, then 2 to 4 Hangul
\* syllables, removed wherever they match
RECURSIVE SubNames(_)
SubNames(s) ==
    LET Run(t) == CHOOSE n \in 0..4 :
                      /\ n <= Len(t)
                      /\ \A k \in 1..n : IsHangul(t[k])
                      /\ (n = 4 \/ n = Len(t) \/ ~IsHangul(t[n + 1]))
        Blanks(t) == CHOOSE n \in 0..Len(t) :
                      /\ \A k \in 1..n : t[k] = " "
                      /\ (n = Len(t) \/ t[n + 1] # " ")
        Drop(t, n) == SubSeq(t, n + 1, Len(t))
        toss  == Len(s) >= 2 /\ s[1] = "_to" /\ s[2] = "_seu"
        after == Drop(s, 2 + Blanks(Drop(s, 2)))
        m     == IF toss /\ Run(after) >= 2
                 THEN (Len(s) - Len(after)) + Run(after)
                 ELSE IF Run(s) >= 2 THEN Run(s) ELSE 0
    IN  IF s = <<>> THEN <<>>
        ELSE IF m > 0 THEN SubNames(Drop(s, m))
        ELSE <<Head(s)>> \o SubNames(Tail(s))

_anonymize_description(row) ==
    IF row.description = NanText THEN row.description
    ELSE IF row.type = "transfer"
    THEN LET desc == Strip(SubNames(row.description))
         IN  IF desc # <<>> THEN desc ELSE row.category_lv1
    ELSE IF row.type = "income" THEN <<"_ip", "_geum">>
    ELSE row.description

\* _standardize_columns: the error of line 109, or the table with the
\* optional columns filled in
_standardize_columns(table) ==
    LET found == FoundStdCols(table.columns)
        Cell(r, std, default) == IF std \in found THEN r[std] ELSE default
    IN  IF MissingRequired(found)
        THEN [ok |-> FALSE,
              error |-> [type |-> "ValueError", what |-> "required columns missing",
                         names |-> required, columns |-> table.columns],
              warnings |-> <<>>]
        ELSE [ok |-> TRUE,
              has_type |-> "type" \in found,
              rows |-> [i \in 1..Len(table.rows) |->
                          [date   |-> table.rows[i].date,
                           amount |-> table.rows[i].amount,
                           type   |-> Cell(table.rows[i], "type", <<>>),
                           category_lv1   |-> Cell(table.rows[i], "category_lv1", Etc),
                           description    |-> Cell(table.rows[i], "description", <<>>),
                           payment_method |-> Cell(table.rows[i], "payment_method", <<>>)]],
              warnings |-> IF "category_lv1" \in found THEN <<>>
                           ELSE << [what |-> "no category column", count |-> 0] >>]

\* if bad_date: warn_fn(...) / if bad_amt: warn_fn(...): the warning function
\* is handed the number of rows that are excluded
WarnBad_Never(warnings, what, bad) == warnings

WarnBad(warnings, what, bad) ==
    IF bad > 0 THEN Append(warnings, [what |-> what, count |-> bad]) ELSE warnings

\* _clean_types on the standardized rows
_clean_types(std) ==
    LET dated    == SelectSeq(std.rows, LAMBDA r : r.date # NaT)
        bad_date == Len(std.rows) - Len(dated)
        w1       == WarnBad(std.warnings, "date", bad_date)
        parsed   == [i \in 1..Len(dated) |->
                        [dated[i] EXCEPT !.amount = ToNumeric(CleanAmount(dated[i].amount))]]
        valued   == SelectSeq(parsed, LAMBDA r : r.amount # NaN)
        bad_amt  == Len(parsed) - Len(valued)
        w2       == WarnBad(w1, "amount", bad_amt)
        TypeOf(r) ==
            LET raw_type == IF ~std.has_type \/ Strip(r.type) \in {NanText, NoneText}
                            THEN <<>> ELSE Strip(r.type)
                text == raw_type \o <<" ">> \o r.description \o <<" ">> \o r.category_lv1
                            \o <<" ">> \o <<" ">> \o r.payment_method
            IN  InferType(text, r.amount.n)
    IN  IF dated = <<>>
        THEN [ok |-> FALSE, error |-> [type |-> "ValueError", what |-> "no valid row",
                         names |-> {"date"}, columns |-> {}],
              warnings |-> w1]
        ELSE IF valued = <<>>
        THEN [ok |-> FALSE, error |-> [type |-> "ValueError", what |-> "no valid row",
                         names |-> {"amount"}, columns |-> {}],
              warnings |-> w2]
        ELSE [ok |-> TRUE,
              rows |-> [i \in 1..Len(valued) |->
                          [valued[i] EXCEPT
                              !.amount = valued[i].amount.n,
                              !.type = TypeOf(valued[i]),
                              !.category_lv1 = IF Strip(valued[i].category_lv1) = <<>>
                                               THEN Etc ELSE valued[i].category_lv1]],
              warnings |-> w2]

\* _enrich of one row
_enrich_BySign(r) ==
    LET amount_abs == Abs(r.amount)
    IN  [date |-> r.date, amount |-> r.amount, type |-> r.type,
         category_lv1 |-> r.category_lv1, description |-> r.description,
         payment_method |-> r.payment_method,
         is_expense  |-> r.type = "expense" \/ r.amount < 0,
         is_income   |-> r.type = "income",
         is_transfer |-> r.type = "transfer",
         amount_abs  |-> amount_abs,
         spend_amount    |-> IF r.type = "expense"  THEN amount_abs ELSE 0,
         income_amount   |-> IF r.type = "income"   THEN amount_abs ELSE 0,
         transfer_amount |-> IF r.type = "transfer" THEN amount_abs ELSE 0]

_enrich(r) ==
    LET amount_abs == Abs(r.amount)
    IN  [date |-> r.date, amount |-> r.amount, type |-> r.type,
         category_lv1 |-> r.category_lv1, description |-> r.description,
         payment_method |-> r.payment_method,
         is_expense  |-> r.type = "expense",
         is_income   |-> r.type = "income",
         is_transfer |-> r.type = "transfer",
         amount_abs  |-> amount_abs,
         spend_amount    |-> IF r.type = "expense"  THEN amount_abs ELSE 0,
         income_amount   |-> IF r.type = "income"   THEN amount_abs ELSE 0,
         transfer_amount |-> IF r.type = "transfer" THEN amount_abs ELSE 0]

\* _normalize of one row
_normalize(r) == [r EXCEPT !.description = _anonymize_description(r)]

run_preprocess(file) ==
    LET std == _standardize_columns(file)
    IN  IF ~std.ok THEN std
        ELSE LET cleaned == _clean_types(std)
             IN  IF ~cleaned.ok THEN cleaned
                 ELSE [ok |-> TRUE,
                       rows |-> [i \in 1..Len(cleaned.rows) |->
                                    _normalize(_enrich(cleaned.rows[i]))],
                       warnings |-> cleaned.warnings]

(***************************************************************************)
(* Specification of run_preprocess: a raw table drawn at Init, one call.   *)
(* The tables are every single row under the full header, and the tables   *)
(* of at most MaxRawRows rows of a small pool under each header.           *)
(***************************************************************************)
MaxRawRows == 2

FullHeader == {"_nal_jja", "_ta_ib", "_dae_bun_ryu", "_nae_yong", "_geum_aeg", "_gyeol_je_su_dan"}

Headers ==
    { FullHeader,
      {"date", "amount"},
      {"Date", "price", "description"},
      {"DATE", "amount", "type"},
      {"_nal_jja", "_nae_yong", "_ta_ib"},
      {"_nae_yong"},
      {} }

RawRows ==
    LET TypeCells == {<<>>, <<"_ji", "_chul">>, <<"_su", "_ip">>, NanText}
        DescCells ==
            { <<>>,
              <<"_keo", "_pi">>,
              <<"_geub", "_yeo">>,
              <<"_ka", "_deu", " ", "_gyeol", "_je">>,
              <<"_ja", "_dong", "_i", "_che">>,
              <<"T", "r", "a", "n", "s", "f", "e", "r">>,
              <<"_hwan", "_geub", " ", "_song", "_geum">>,
              <<"_to", "_seu", " ", "_gim", "_cheol", "_su", " ", "_song", "_geum">> }
        CatCells == {<<" ">>, <<"_sig", "_bi">>}
        PayCells == {<<>>, <<"_seung", "_in">>}
        AmountCells ==
            { <<"1", "2">>, <<"-", "3">>, <<"(", "4", ")">>,
              <<"1", ",", "0", "0", "0", "_won">>, <<"0">>, <<"a", "b">> }
        DateCells == {20, 45, NaT}
    IN  [date : DateCells, type : TypeCells, description : DescCells,
         category_lv1 : CatCells, payment_method : PayCells, amount : AmountCells]

RawPool ==
    LET RawRow(date, type, description, amount) ==
            [date |-> date, type |-> type, description |-> description,
             category_lv1 |-> <<"_sig", "_bi">>, payment_method |-> <<>>, amount |-> amount]
    IN  << RawRow(20,  <<"_ji", "_chul">>, <<"_keo", "_pi">>, <<"1", "2">>),
           RawRow(NaT, <<>>, <<"_geub", "_yeo">>, <<"5">>),
           RawRow(45,  <<>>, <<"_keo", "_pi">>, <<"a", "b">>),
           RawRow(45,  NanText, <<"_song", "_geum">>, <<"-", "3">>),
           RawRow(NaT, <<>>, <<>>, <<"-">>) >>

RECURSIVE RawSeqs(_)
RawSeqs(n) ==
    IF n = 0 THEN {<<>>}
    ELSE RawSeqs(n - 1) \cup
         {Append(t, RawPool[k]) : t \in {u \in RawSeqs(n - 1) : Len(u) = n - 1},
                                  k \in 1..Len(RawPool)}

RawTables ==
    {[columns |-> FullHeader, rows |-> <<r>>] : r \in RawRows}
        \cup {[columns |-> h, rows |-> t] : h \in Headers, t \in RawSeqs(MaxRawRows)}

InitPreprocess ==
    /\ raw_df \in RawTables
    /\ session_state = <<>>
    /\ disk = <<>>
    /\ llm = <<>>
    /\ df = <<>>
    /\ date_range = <<0, 0>>
    /\ params = DefaultParams
    /\ monthly_expense = <<>>
    /\ fixed_cost_est_monthly = RInt(0)
    /\ stc_args = NoStcArgs
    /\ budget = None
    /\ out = NoOut

Preprocess ==
    /\ out.op = "none"
    /\ out' = [op |-> "preprocess", result |-> run_preprocess(raw_df)]
    /\ UNCHANGED <<df, date_range, params, monthly_expense, fixed_cost_est_monthly, stc_args,
                   budget, raw_df, session_state, disk, llm>>

NextPreprocess == Preprocess

SpecPreprocess == InitPreprocess /\ [][NextPreprocess]_vars

(***************************************************************************)
(* The data manager (expense_preprocess/data_manager/state.py, storage.py) *)
(* and the uploader of the sidebar (app/sidebar.py).                       *)
(*                                                                         *)
(* session_state holds the keys dm_raw_files, dm_upload_log,               *)
(* dm_clean_files, dm_df_active, dm_data_source, dm_timeline_max,          *)
(* dm_last_processed_token and dm_uploader_sidebar (the files the uploader *)
(* widget holds).  A dict is a function on its keys.  A value that may be  *)
(* None is a sequence: <<>> for None, <<x>> for the value x; the active    *)
(* table is <<>> or <<rows>>.  disk is the snapshot of .dm_store: the meta *)
(* of meta.json (<<>> while the file does not exist) and the active table  *)
(* (<<>> when neither active.parquet nor active.csv exists).  A timestamp  *)
(* is a number of ticks, DayTicks to the calendar day.  The uploaded_at,   *)
(* processed_at and saved_at clock readings, the format and path of the    *)
(* clean files and the dm_loaded_from_disk flag (true from the first call  *)
(* of a session on) are left out.                                          *)
(***************************************************************************)
SOURCE_COL == "__source_file"

DayTicks == 2

EmptyDict == [k \in {} |-> <<>>]

\* d[k] = v
Put(d, k, v) == [n \in DOMAIN d \cup {k} |-> IF n = k THEN v ELSE d[n]]

\* d.pop(k, None)
Pop(d, k) == [n \in DOMAIN d \ {k} |-> d[n]]

\* cur.update(patch)
Update(cur, patch) ==
    [k \in DOMAIN cur \cup DOMAIN patch |-> IF k \in DOMAIN patch THEN patch[k] ELSE cur[k]]

\* pd.to_datetime(df["date"], errors="coerce").dropna(), as a set
ValidDates(rows) == {rows[i].date : i \in {j \in 1..Len(rows) : rows[j].date # NaT}}

\* s.min().isoformat() / s.max().isoformat(), None for no date
MinIso(rows) ==
    IF ValidDates(rows) = {} THEN <<>>
    ELSE << CHOOSE x \in ValidDates(rows) : \A y \in ValidDates(rows) : x <= y >>

MaxIso(rows) ==
    IF ValidDates(rows) = {} THEN <<>>
    ELSE << CHOOSE x \in ValidDates(rows) : \A y \in ValidDates(rows) : x >= y >>

\* the date of the first row instead of the latest date
_calc_max_date_iso_FirstRow(active) ==
    IF active = <<>> \/ active[1] = <<>> \/ "date" \notin DOMAIN active[1][1] THEN <<>>
    ELSE IF active[1][1].date = NaT THEN <<>> ELSE <<active[1][1].date>>

_calc_max_date_iso(active) ==
    IF active = <<>> \/ active[1] = <<>> \/ "date" \notin DOMAIN active[1][1] THEN <<>>
    ELSE MaxIso(active[1])

\* what _persist leaves on disk: save_snapshot writes meta.json and the
\* active table, and removes the active files when the table is None
_persist(s) ==
    [meta   |-> << [upload_log    |-> s.dm_upload_log,
                    clean_files   |-> s.dm_clean_files,
                    active_source |-> s.dm_data_source,
                    timeline_max  |-> s.dm_timeline_max] >>,
     active |-> s.dm_df_active]

\* the session after the first init_data_manager_state of a session:
\* load_snapshot, the meta taken over, the timeline recomputed from the
\* active table when there is one
init_data_manager_state(snapshot) ==
    LET meta == snapshot.meta
    IN  [dm_raw_files   |-> EmptyDict,
         dm_upload_log  |-> IF meta # <<>> THEN meta[1].upload_log ELSE EmptyDict,
         dm_clean_files |-> IF meta # <<>> THEN meta[1].clean_files ELSE EmptyDict,
         dm_df_active   |-> snapshot.active,
         dm_data_source |-> IF meta # <<>> THEN meta[1].active_source ELSE <<>>,
         dm_timeline_max |->
             IF snapshot.active # <<>> THEN _calc_max_date_iso(snapshot.active)
             ELSE IF meta # <<>> THEN meta[1].timeline_max ELSE <<>>,
         dm_last_processed_token |-> <<>>,
         dm_uploader_sidebar     |-> <<>>]

add_uploaded_file(s, name, data) ==
    [s EXCEPT !.dm_raw_files  = Put(@, name, data),
              !.dm_upload_log = Put(@, name, [size_bytes |-> data.size])]

patch_clean_meta(s, name, patch) ==
    LET cur == IF name \in DOMAIN s.dm_clean_files THEN s.dm_clean_files[name] ELSE EmptyDict
    IN  [s EXCEPT !.dm_clean_files = Put(@, name, Update(cur, patch))]

\* df_active.loc[df_active[SOURCE_COL] != name]
RowsOfOthers_KeepFirst(rows, name) ==
    SelectSeq(rows, LAMBDA r : r[SOURCE_COL] # name \/ r = rows[1])

RowsOfOthers(rows, name) == SelectSeq(rows, LAMBDA r : r[SOURCE_COL] # name)

\* sort_values("date"): ascending, rows of equal date in table order, rows
\* without a date last
RECURSIVE SortByDate(_)
SortByDate(rows) ==
    IF rows = <<>> THEN <<>>
    ELSE LET Before(a, b) == a # NaT /\ (b = NaT \/ a < b)
             i == CHOOSE k \in 1..Len(rows) :
                     /\ \A j \in 1..Len(rows) : ~Before(rows[j].date, rows[k].date)
                     /\ \A j \in 1..(k - 1) : Before(rows[k].date, rows[j].date)
         IN  <<rows[i]>> \o SortByDate(SubSeq(rows, 1, i - 1) \o SubSeq(rows, i + 1, Len(rows)))

\* lines 162-163: sorted by date if the table has the column
delete_file_sort(rows) ==
    IF rows # <<>> /\ "date" \notin DOMAIN rows[1] THEN rows ELSE SortByDate(rows)

\* lines 164-165: the filtered table and its timeline
delete_file_rows(s, filtered) ==
    [s EXCEPT !.dm_df_active = filtered, !.dm_timeline_max = _calc_max_date_iso(filtered)]

\* lines 168-174: the file leaves the three dictionaries and the source
delete_file_meta(s, name) ==
    [s EXCEPT !.dm_raw_files   = Pop(@, name),
              !.dm_upload_log  = Pop(@, name),
              !.dm_clean_files = Pop(@, name),
              !.dm_data_source = IF @ = <<name>> THEN <<>> ELSE @]

delete_file(s, name) ==
    delete_file_meta(
        IF s.dm_df_active # <<>> /\ s.dm_df_active[1] # <<>>
              /\ SOURCE_COL \in DOMAIN s.dm_df_active[1][1]
        THEN delete_file_rows(s, << delete_file_sort(RowsOfOthers(s.dm_df_active[1], name)) >>)
        ELSE s,
        name)

clear_all(s) ==
    [s EXCEPT !.dm_raw_files = EmptyDict, !.dm_upload_log = EmptyDict,
              !.dm_clean_files = EmptyDict, !.dm_df_active = <<>>,
              !.dm_data_source = <<>>, !.dm_timeline_max = <<>>]

clear_active(s) ==
    [s EXCEPT !.dm_df_active = <<>>, !.dm_data_source = <<>>, !.dm_timeline_max = <<>>]

set_active_df(s, active, source_name) ==
    [s EXCEPT !.dm_df_active    = active,
              !.dm_data_source  = source_name,
              !.dm_timeline_max = _calc_max_date_iso(active)]

\* the meta save_clean_df_file returns (rows and date range of the file)
save_clean_df_file(rows) ==
    [rows |-> Len(rows), min_date |-> MinIso(rows), max_date |-> MaxIso(rows)]

save_clean_df(s, name, df_clean) ==
    [s EXCEPT !.dm_clean_files = Put(@, name, save_clean_df_file(df_clean))]

\* d.dt.date of a timestamp: its calendar day (NaT stays NaT)
_date_only_series_Timestamp(d) == d

_date_only_series(d) == IF d = NaT THEN NaT ELSE d \div DayTicks

\* df.assign(**{SOURCE_COL: name}) / new_df[SOURCE_COL] = source_name
AssignSource(rows, name) ==
    [i \in 1..Len(rows) |->
        [c \in DOMAIN rows[i] \cup {SOURCE_COL} |->
            IF c = SOURCE_COL THEN name ELSE rows[i][c]]]

\* pd.concat([a, b], ignore_index=True): the columns of both, a cell of a
\* column a row did not have reading "NaN"
Concat(a, b) ==
    LET cols == UNION {DOMAIN r : r \in {a[i] : i \in 1..Len(a)} \cup {b[i] : i \in 1..Len(b)}}
        Fill(r) == [c \in cols |-> IF c \in DOMAIN r THEN r[c] ELSE "NaN"]
    IN  [i \in 1..(Len(a) + Len(b)) |-> Fill(IF i <= Len(a) THEN a[i] ELSE b[i - Len(a)])]

\* add_part = new_df.loc[~dup_mask]: the rows whose day is not among the
\* days of the active table
AddPart(active_rows, new_rows) ==
    LET existing_days == {_date_only_series(active_rows[i].date) : i \in 1..Len(active_rows)}
    IN  SelectSeq(new_rows, LAMBDA r : _date_only_series(r.date) \notin existing_days)

\* the meta of lines 203-212: what was added out of the rows of the file
AppendMeta(add_part, total) ==
    [added_rows |-> Len(add_part), dropped_duplicate_days |-> total - Len(add_part),
     added_min_date |-> MinIso(add_part), added_max_date |-> MaxIso(add_part)]

\* the merged table of lines 195-201 and the meta
AppendPart(active_rows, add_part, total) ==
    [merged |-> SortByDate(Concat(active_rows, add_part)), meta |-> AppendMeta(add_part, total)]

AppendAll(tagged) == [merged |-> SortByDate(tagged), meta |-> AppendMeta(tagged, Len(tagged))]

\* _incremental_append_by_day: the merged table and the meta of the file
_incremental_append_by_day(active_df, new_df, source_name) ==
    IF active_df = <<>> \/ active_df[1] = <<>>
    THEN AppendAll(AssignSource(new_df, source_name))
    ELSE AppendPart(active_df[1], AddPart(active_df[1], AssignSource(new_df, source_name)),
                    Len(new_df))

\* the token of line 244: name and byte size of every file, in order
Token(files) == [i \in 1..Len(files) |-> <<files[i].name, files[i].data.size>>]

\* lines 277-291: the first active table is the cleaned file, tagged
FirstActive(s, name, rows) ==
    patch_clean_meta(set_active_df(s, <<AssignSource(rows, name)>>, <<name>>), name,
                     AppendMeta(rows, Len(rows)))

\* lines 294-301: the merged table becomes the active table
MergeActive(s, name, r) ==
    patch_clean_meta(set_active_df(s, <<r.merged>>, <<name>>), name, r.meta)

\* lines 276-301 for the cleaned rows of one file
UpdateActive(s, name, rows, has_active) ==
    IF ~has_active THEN FirstActive(s, name, rows)
    ELSE MergeActive(s, name, _incremental_append_by_day(s.dm_df_active, rows, name))

\* the loop over the uploaded files from file i on.  An exception of
\* run_preprocess ends the script run: what was stored before stays.
RECURSIVE UploadLoop(_, _, _, _)
UploadFile(s, files, i, has_active, df_clean) ==
    IF ~df_clean.ok THEN s
    ELSE UploadLoop(UpdateActive(save_clean_df(s, files[i].name, df_clean.rows),
                                 files[i].name, df_clean.rows, has_active),
                    files, i + 1, TRUE)

UploadLoop(s, files, i, has_active) ==
    IF i > Len(files) THEN s
    ELSE UploadFile(add_uploaded_file(s, files[i].name, files[i].data), files, i, has_active,
                    run_preprocess(files[i].data.table))

\* one script run of render_data_manage_sidebar_uploader
render_data_manage_sidebar_uploader_Always(s) ==
    IF s.dm_uploader_sidebar = <<>> THEN s
    ELSE UploadLoop([s EXCEPT !.dm_last_processed_token = <<Token(s.dm_uploader_sidebar)>>],
                    s.dm_uploader_sidebar, 1,
                    s.dm_df_active # <<>> /\ s.dm_df_active[1] # <<>>)

render_data_manage_sidebar_uploader(s) ==
    IF s.dm_uploader_sidebar = <<>> THEN s
    ELSE IF s.dm_last_processed_token = <<Token(s.dm_uploader_sidebar)>> THEN s
    ELSE UploadLoop([s EXCEPT !.dm_last_processed_token = <<Token(s.dm_uploader_sidebar)>>],
                    s.dm_uploader_sidebar, 1,
                    s.dm_df_active # <<>> /\ s.dm_df_active[1] # <<>>)

(***************************************************************************)
(* Specification of the data-management page: the user changes the files   *)
(* the uploader holds (at most MaxUploads of a small pool; the script run  *)
(* that follows processes them), the script reruns with the uploader       *)
(* untouched, a file of the list is deleted, everything is deleted, or a   *)
(* new session starts from the snapshot on disk.  Every script run of the  *)
(* page renders the uploader first.  out records the file the last script  *)
(* run deleted, if it deleted one, and the tokens the upload loop has run  *)
(* for in the session (at most MaxHistory of them).                        *)
(***************************************************************************)
MaxUploads == 2
MaxHistory == 2

\* the pool: files of two columns; "a.csv" comes in two versions (two byte
\* sizes), "b.csv" shares a day with the first of them, "x.csv" has no
\* amount column
UploadPool ==
    LET Cells(ts, amount) == [date |-> ts, amount |-> amount]
        File(name, size, columns, rows) ==
            [name |-> name,
             data |-> [size |-> size, table |-> [columns |-> columns, rows |-> rows]]]
    IN  { File("a.csv", 10, {"date", "amount"},
               << Cells(3, <<"5">>), Cells(2, <<"-", "2">>), Cells(4, <<"7">>) >>),
          File("b.csv", 20, {"date", "amount"},
               << Cells(5, <<"3">>), Cells(6, <<"4">>) >>),
          File("a.csv", 11, {"date", "amount"},
               << Cells(8, <<"6">>) >>),
          File("x.csv", 5, {"date"},
               << Cells(1, <<"1">>) >>) }

\* what the uploader can hold: sequences of distinct files of the pool
RECURSIVE Selections(_)
Selections(n) ==
    IF n = 0 THEN {<<>>}
    ELSE Selections(n - 1) \cup
         {Append(t, f) : t \in {u \in Selections(n - 1) : Len(u) = n - 1},
                         f \in UploadPool}

\* the files of one selection come from one folder: their names differ
NoDuplicate(files) == \A i, j \in 1..Len(files) : files[i].name = files[j].name => i = j

InitUploader ==
    /\ budget = None
    /\ raw_df = NoRaw
    /\ df = <<>>
    /\ date_range = <<0, 0>>
    /\ params = DefaultParams
    /\ monthly_expense = <<>>
    /\ fixed_cost_est_monthly = RInt(0)
    /\ stc_args = NoStcArgs
    /\ llm = <<>>
    /\ disk = [meta |-> <<>>, active |-> <<>>]
    /\ session_state = init_data_manager_state(disk)
    /\ out = [op |-> "uploader", deleted |-> <<>>, processed |-> {}]

ChangeUploader ==
    \E files \in Selections(MaxUploads) :
        /\ NoDuplicate(files)
        /\ files # session_state.dm_uploader_sidebar
        /\ \/ Token(files) \in out.processed
           \/ Cardinality(out.processed) < MaxHistory
           \/ files = <<>>
        /\ LET s0 == [session_state EXCEPT !.dm_uploader_sidebar = files]
           IN  /\ session_state' = render_data_manage_sidebar_uploader(s0)
               /\ disk' = IF session_state' = s0 THEN disk ELSE _persist(session_state')
               /\ out' = [out EXCEPT !.deleted = <<>>,
                                      !.processed = IF session_state' = s0 THEN @
                                                    ELSE @ \cup {Token(files)}]
        /\ UNCHANGED <<df, date_range, params, monthly_expense, fixed_cost_est_monthly,
                       stc_args, budget, raw_df, llm>>

Rerun ==
    /\ session_state' = render_data_manage_sidebar_uploader(session_state)
    /\ UNCHANGED <<df, date_range, params, monthly_expense, fixed_cost_est_monthly, stc_args,
                   budget, raw_df, disk, llm, out>>

\* the names the page lists
ListedNames(s) == DOMAIN s.dm_upload_log \cup DOMAIN s.dm_clean_files \cup DOMAIN s.dm_raw_files

DeleteFile ==
    \E selected \in ListedNames(session_state) :
        /\ session_state' =
                delete_file(render_data_manage_sidebar_uploader(session_state), selected)
        /\ disk' = _persist(session_state')
        /\ out' = [out EXCEPT !.deleted = <<selected>>]
        /\ UNCHANGED <<df, date_range, params, monthly_expense, fixed_cost_est_monthly,
                       stc_args, budget, raw_df, llm>>

ClearAll ==
    /\ ListedNames(session_state) # {}
    /\ session_state.dm_df_active # <<>> /\ session_state.dm_df_active[1] # <<>>
    /\ session_state' = clear_all(render_data_manage_sidebar_uploader(session_state))
    /\ disk' = _persist(session_state')
    /\ out' = [out EXCEPT !.deleted = <<>>]
    /\ UNCHANGED <<df, date_range, params, monthly_expense, fixed_cost_est_monthly, stc_args,
                   budget, raw_df, llm>>

NewSession ==
    /\ session_state' = init_data_manager_state(disk)
    /\ out' = [out EXCEPT !.deleted = <<>>, !.processed = {}]
    /\ UNCHANGED <<df, date_range, params, monthly_expense, fixed_cost_est_monthly, stc_args,
                   budget, raw_df, disk, llm>>

NextUploader ==
    \/ ChangeUploader
    \/ Rerun
    \/ DeleteFile
    \/ ClearAll
    \/ NewSession

SpecUploader == InitUploader /\ [][NextUploader]_vars

(***************************************************************************)
(* Specification of the data manager called operation by operation: any    *)
(* of its operations, with any of a few tables, names and patches, in any  *)
(* order, and a new session that loads the snapshot.  The tables: absent,  *)
(* without rows, with and without a date column, with rows out of order,   *)
(* with dates that do not parse, with and without the source-file tag.     *)
(***************************************************************************)
FileNames == {"a.csv", "b.csv"}

Tables ==
    LET R(ts, name) == [date |-> ts, amount |-> RInt(1), __source_file |-> name]
        U(ts) == [date |-> ts, amount |-> RInt(1)]
    IN  { <<>>,
          << <<>> >>,
          << << R(4, "a.csv"), R(1, "b.csv"), R(NaT, "a.csv") >> >>,
          << << R(2, "a.csv"), R(6, "a.csv") >> >>,
          << << R(NaT, "b.csv") >> >>,
          << << U(5), U(3) >> >>,
          << << [amount |-> RInt(1), __source_file |-> "b.csv"],
                [amount |-> RInt(2), __source_file |-> "a.csv"] >> >> }

InitDataManager ==
    /\ budget = None
    /\ raw_df = NoRaw
    /\ df = <<>>
    /\ date_range = <<0, 0>>
    /\ params = DefaultParams
    /\ monthly_expense = <<>>
    /\ fixed_cost_est_monthly = RInt(0)
    /\ stc_args = NoStcArgs
    /\ llm = <<>>
    /\ disk = [meta |-> <<>>, active |-> <<>>]
    /\ session_state = init_data_manager_state(disk)
    /\ out = [op |-> "data_manager"]

\* an operation of the data manager leaves the session s and persists it
Called(s) ==
    /\ session_state' = s
    /\ disk' = _persist(s)
    /\ UNCHANGED <<df, date_range, params, monthly_expense, fixed_cost_est_monthly, stc_args,
                   budget, raw_df, llm, out>>

CallSetActiveDf ==
    \E table \in Tables, source_name \in {<<>>} \cup {<<n>> : n \in FileNames} :
        Called(set_active_df(session_state, table, source_name))

CallDeleteFile == \E name \in FileNames : Called(delete_file(session_state, name))

CallClearActive == Called(clear_active(session_state))

CallClearAll == Called(clear_all(session_state))

CallAddUploadedFile ==
    \E name \in FileNames : Called(add_uploaded_file(session_state, name, [size |-> 10]))

CallSaveCleanDf ==
    \E name \in FileNames :
        Called(save_clean_df(session_state, name, << [date |-> 4, amount |-> RInt(1)] >>))

CallPatchCleanMeta ==
    \E name \in FileNames : Called(patch_clean_meta(session_state, name, [added_rows |-> 1]))

CallInit ==
    /\ session_state' = init_data_manager_state(disk)
    /\ UNCHANGED <<df, date_range, params, monthly_expense, fixed_cost_est_monthly, stc_args,
                   budget, raw_df, disk, llm, out>>

NextDataManager ==
    \/ CallSetActiveDf
    \/ CallDeleteFile
    \/ CallClearActive
    \/ CallClearAll
    \/ CallAddUploadedFile
    \/ CallSaveCleanDf
    \/ CallPatchCleanMeta
    \/ CallInit

SpecDataManager == InitDataManager /\ [][NextDataManager]_vars

(***************************************************************************)
(* The report cache (ai_report/utils.py) and the two report generators.    *)
(* A JSON value is a record of its type, its size and an identity; a       *)
(* summary is the dict build_ai_summary returned.  The cache on disk is,   *)
(* per mode, the files report_<key>.json by key, each with the time it was *)
(* saved; the session holds a result and a summary per mode.  The report   *)
(* keys are MD5 digests: a digest keeps unequal payloads apart and its     *)
(* order has nothing to do with the payloads or with the time of saving.   *)
(***************************************************************************)
MaxCalls == 2

Modes == {"legacy", "all", "short"}

JsonDict(id) == [type |-> "dict", size |-> 1, id |-> id]

EmptyJsonDict == [type |-> "dict", size |-> 0, id |-> 0]

JsonList == [type |-> "list", size |-> 1, id |-> 0]

\* bool(v) of a JSON container, and isinstance(v, dict)
Truthy(v) == v.size > 0

IsDict(v) == v.type = "dict"

\* v or {}
OrEmpty(v) == IF Truthy(v) THEN v ELSE EmptyJsonDict

\* an optional value is a non-empty dict
IsReport(opt) == opt # <<>> /\ IsDict(opt[1]) /\ Truthy(opt[1])

ResultKey(mode) ==
    IF mode = "legacy" THEN "ai_report_result"
    ELSE IF mode = "all" THEN "ai_report_result_all" ELSE "ai_report_result_short"

SummaryKey(mode) ==
    IF mode = "legacy" THEN "ai_report_summary"
    ELSE IF mode = "all" THEN "ai_report_summary_all" ELSE "ai_report_summary_short"

\* init_ai_report_state: the six keys are None
init_ai_report_state ==
    [k \in {ResultKey(m) : m \in Modes} \cup {SummaryKey(m) : m \in Modes} |-> <<>>]

\* json.dumps(payload, sort_keys=True): one text per payload
DumpPayload(payload) ==
    payload.summary.id + 2 * (IF payload.params.overspend_ratio_ok = 80 THEN 0 ELSE 1)
        + 4 * (IF payload.version = "v2_all" THEN 0 ELSE 1)
        + 8 * (IF payload.model = "gemini-2.5-flash" THEN 0 ELSE 1)

\* hashlib.md5(s).hexdigest(): a digest of the text (one to one on the
\* payloads here, in no order of theirs)
Md5(text) == (text * 6 + 5) % 11

make_ai_report_key(summary, params_dict, model, version) ==
    Md5(DumpPayload([version |-> version, model |-> model, params |-> params_dict,
                     summary |-> summary]))

\* save_ai_report: the file of the key in the folder of the mode is written
save_ai_report_Legacy(cache, result, summary, key, mode) ==
    [clock |-> cache.clock + 1,
     files |-> [cache.files EXCEPT !["legacy"] =
                    Put(@, key, [saved_at |-> cache.clock + 1, key |-> key, mode |-> mode,
                                 result |-> OrEmpty(result), summary |-> OrEmpty(summary)])]]

save_ai_report(cache, result, summary, key, mode) ==
    [clock |-> cache.clock + 1,
     files |-> [cache.files EXCEPT ![mode] =
                    Put(@, key, [saved_at |-> cache.clock + 1, key |-> key, mode |-> mode,
                                 result |-> OrEmpty(result), summary |-> OrEmpty(summary)])]]

\* load_ai_report: (result, summary) of the file, (None, None) if there is
\* no file or one of the two is not a dict
load_ai_report(cache, key, mode) ==
    IF key \notin DOMAIN cache.files[mode] THEN [result |-> <<>>, summary |-> <<>>]
    ELSE IF ~IsDict(cache.files[mode][key].result) \/ ~IsDict(cache.files[mode][key].summary)
         THEN [result |-> <<>>, summary |-> <<>>]
         ELSE [result |-> <<cache.files[mode][key].result>>,
               summary |-> <<cache.files[mode][key].summary>>]

\* files[0] of sorted(base.glob("report_*.json"), reverse=True): the file
\* whose name is greatest
FirstFile(files) == files[CHOOSE k \in DOMAIN files : \A j \in DOMAIN files : j <= k]

\* lines 163-176: the result and the summary of the file go to the session
RestoreFile(s, data, mode) ==
    IF ~IsDict(data.result) THEN s
    ELSE [s EXCEPT ![ResultKey(mode)]  = <<data.result>>,
                   ![SummaryKey(mode)] = <<IF IsDict(data.summary) THEN data.summary
                                           ELSE EmptyJsonDict>>]

restore_latest_to_session_by_mode(s, cache, mode, force) ==
    IF DOMAIN cache.files[mode] = {} THEN s
    ELSE IF ~force /\ IsReport(s[ResultKey(mode)]) THEN s
    ELSE RestoreFile(s, FirstFile(cache.files[mode]), mode)

restore_latest_to_session_both(s, cache, force) ==
    restore_latest_to_session_by_mode(
        restore_latest_to_session_by_mode(s, cache, "all", force), cache, "short", force)

\* the cache hit of a generator: the cached pair goes to the session
CacheHit(st, cached, summary, mode) ==
    [st EXCEPT !.session = [@ EXCEPT ![SummaryKey(mode)] = <<IF Truthy(cached.summary[1])
                                                              THEN cached.summary[1]
                                                              ELSE summary>>,
                                     ![ResultKey(mode)]  = cached.result]]

\* the cache miss: call_llm_json is called; if it raises nothing is stored,
\* else its result goes to the session and to the cache
CacheMiss(st, summary, key, mode, response) ==
    IF response.status # "ok" THEN [st EXCEPT !.llm.calls = @ + 1]
    ELSE [session |-> [st.session EXCEPT ![SummaryKey(mode)] = <<summary>>,
                                         ![ResultKey(mode)]  = <<response.json>>],
          cache   |-> save_ai_report(st.cache, response.json, summary, key, mode),
          llm     |-> [st.llm EXCEPT !.calls = @ + 1]]

\* lines 70-100 and 161-190 of the generators, from the cache key on
GenerateFromKey(st, summary, key, mode, response) ==
    IF IsReport(load_ai_report(st.cache, key, mode).result)
    THEN CacheHit(st, load_ai_report(st.cache, key, mode), summary, mode)
    ELSE CacheMiss(st, summary, key, mode, response)

\* asdict(params) with the mode (and the window) added
ParamsDictAll(p) == [overspend_ratio_ok |-> p, mode |-> "all"]

ParamsDictShort(p) == [overspend_ratio_ok |-> p, mode |-> "short", window_days |-> 30]

generate_ai_report_all(st, summary, p, model, response) ==
    GenerateFromKey(st, summary, make_ai_report_key(summary, ParamsDictAll(p), model, "v2_all"),
                    "all", response)

generate_ai_report_last_30_days(st, summary, p, model, response) ==
    GenerateFromKey(st, summary,
                    make_ai_report_key(summary, ParamsDictShort(p), model, "v2_short"),
                    "short", response)

(***************************************************************************)
(* Specification of the report page: the user presses one of the two       *)
(* report buttons (the summary, the slider value and the answer of the LLM *)
(* are drawn from small sets; at most MaxCalls calls of the LLM), presses  *)
(* the clear button, opens a new session, or the script restores the       *)
(* latest reports.  out records the report button pressed last with its   *)
(* inputs, or the restore made last.                                       *)
(***************************************************************************)
Summaries == {JsonDict(0), JsonDict(1)}

SliderValues == {80, 90}

\* what call_llm_json can give: two reports, an empty object, a JSON array
\* (json.loads takes any JSON text), or a ValueError
Responses ==
    { [status |-> "ok", json |-> JsonDict(2)],
      [status |-> "ok", json |-> JsonDict(3)],
      [status |-> "ok", json |-> EmptyJsonDict],
      [status |-> "ok", json |-> JsonList],
      [status |-> "ValueError", json |-> EmptyJsonDict] }

ReportState == [session |-> session_state, cache |-> disk, llm |-> llm]

InitReport ==
    /\ budget = None
    /\ raw_df = NoRaw
    /\ df = <<>>
    /\ date_range = <<0, 0>>
    /\ params = DefaultParams
    /\ monthly_expense = <<>>
    /\ fixed_cost_est_monthly = RInt(0)
    /\ stc_args = NoStcArgs
    /\ llm = [calls |-> 0]
    /\ disk = [clock |-> 0, files |-> [m \in Modes |-> EmptyDict]]
    /\ session_state = init_ai_report_state
    /\ out = [op |-> "report", pressed |-> <<>>, restored |-> <<>>]

Generated(st, pressed) ==
    /\ session_state' = st.session
    /\ disk' = st.cache
    /\ llm' = st.llm
    /\ llm'.calls <= MaxCalls
    /\ out' = [out EXCEPT !.pressed = <<pressed>>, !.restored = <<>>]
    /\ UNCHANGED <<df, date_range, params, monthly_expense, fixed_cost_est_monthly, stc_args,
                   budget, raw_df>>

PressAll ==
    \E summary \in Summaries, p \in SliderValues, response \in Responses :
        Generated(generate_ai_report_all(ReportState, summary, p, "gemini-2.5-flash", response),
                  [mode |-> "all", summary |-> summary, p |-> p, response |-> response])

PressShort ==
    \E summary \in Summaries, p \in SliderValues, response \in Responses :
        Generated(generate_ai_report_last_30_days(ReportState, summary, p, "gemini-2.5-flash",
                                                  response),
                  [mode |-> "short", summary |-> summary, p |-> p, response |-> response])

PressClear ==
    /\ session_state' = init_ai_report_state
    /\ disk' = [disk EXCEPT !.files = [m \in Modes |-> EmptyDict]]
    /\ out' = [out EXCEPT !.pressed = <<>>, !.restored = <<>>]
    /\ UNCHANGED <<df, date_range, params, monthly_expense, fixed_cost_est_monthly, stc_args,
                   budget, raw_df, llm>>

RestoreLatest ==
    \E mode \in Modes, force \in BOOLEAN :
        /\ session_state' = restore_latest_to_session_by_mode(session_state, disk, mode, force)
        /\ out' = [out EXCEPT !.pressed = <<>>,
                               !.restored = <<[mode |-> mode, force |-> force]>>]
        /\ UNCHANGED <<df, date_range, params, monthly_expense, fixed_cost_est_monthly,
                       stc_args, budget, raw_df, disk, llm>>

NewReportSession ==
    /\ session_state' = restore_latest_to_session_both(init_ai_report_state, disk, FALSE)
    /\ out' = [out EXCEPT !.pressed = <<>>, !.restored = <<>>]
    /\ UNCHANGED <<df, date_range, params, monthly_expense, fixed_cost_est_monthly, stc_args,
                   budget, raw_df, disk, llm>>

NextReport ==
    \/ PressAll
    \/ PressShort
    \/ PressClear
    \/ RestoreLatest
    \/ NewReportSession

SpecReport == InitReport /\ [][NextReport]_vars

(***************************************************************************)
(* call_llm_json (ai_report/llm.py), one step at a time: the check of the  *)
(* API key, each request with its outcome, each sleep before a retry.  llm *)
(* holds the position of the call, whether GEMINI_API_KEY is set,          *)
(* max_retries, the loop variable, the responses received so far and the   *)
(* value returned.  A request ends (requests.post has connect and read     *)
(* timeouts) with status 200 and a text that is a JSON object, a JSON      *)
(* array or no JSON, with another status, or with a timeout.               *)
(***************************************************************************)
MaxRetries == 2

HttpResponses ==
    { [status |-> 200, text |-> "{..}"], [status |-> 200, text |-> "[..]"],
      [status |-> 200, text |-> "oops"], [status |-> 500, text |-> "error"],
      [status |-> 0, text |-> "timeout"] }

\* json.loads(text): the value, or nothing when the text is no JSON
json_loads(text) ==
    IF text = "{..}" THEN <<JsonDict(2)>> ELSE IF text = "[..]" THEN <<JsonList>> ELSE <<>>

\* lines 48-58 run through without an exception
Succeeds(resp) == resp.status = 200 /\ json_loads(resp.text) # <<>>

\* line 62: attempts remain
ShouldRetry_Never(attempt, max_retries) == FALSE

ShouldRetry(attempt, max_retries) == attempt < max_retries

InitLlm ==
    /\ budget = None
    /\ raw_df = NoRaw
    /\ df = <<>>
    /\ date_range = <<0, 0>>
    /\ params = DefaultParams
    /\ monthly_expense = <<>>
    /\ fixed_cost_est_monthly = RInt(0)
    /\ stc_args = NoStcArgs
    /\ disk = <<>>
    /\ session_state = <<>>
    /\ out = [op |-> "call_llm_json"]
    /\ llm \in {[pc |-> "start", GEMINI_API_KEY |-> k, max_retries |-> r, attempt |-> 0,
                 responses |-> <<>>, result |-> <<>>] :
                    k \in BOOLEAN, r \in (-1)..MaxRetries}

\* lines 22-23 and the entry of the loop at line 46
CheckKey ==
    /\ llm.pc = "start"
    /\ llm' = [llm EXCEPT !.pc = IF ~llm.GEMINI_API_KEY THEN "raised"
                                 ELSE IF llm.max_retries + 1 > 0 THEN "post" ELSE "returned"]
    /\ UNCHANGED <<df, date_range, params, monthly_expense, fixed_cost_est_monthly, stc_args,
                   budget, raw_df, session_state, disk, out>>

\* lines 47-65 for one request
PostRequest ==
    \E resp \in HttpResponses :
        /\ llm.pc = "post"
        /\ llm' = [llm EXCEPT !.responses = Append(@, resp),
                              !.result = IF Succeeds(resp) THEN json_loads(resp.text) ELSE @,
                              !.pc = IF Succeeds(resp) THEN "returned"
                                     ELSE IF ShouldRetry(llm.attempt, llm.max_retries)
                                          THEN "sleep" ELSE "raised"]
        /\ UNCHANGED <<df, date_range, params, monthly_expense, fixed_cost_est_monthly,
                       stc_args, budget, raw_df, session_state, disk, out>>

\* lines 63-64 and the next round of the loop
SleepAndContinue ==
    /\ llm.pc = "sleep"
    /\ llm' = [llm EXCEPT !.attempt = @ + 1, !.pc = "post"]
    /\ UNCHANGED <<df, date_range, params, monthly_expense, fixed_cost_est_monthly, stc_args,
                   budget, raw_df, session_state, disk, out>>

NextLlm ==
    \/ CheckKey
    \/ PostRequest
    \/ SleepAndContinue

SpecLlm == InitLlm /\ [][NextLlm]_vars

\* the interpreter keeps running the call: a request returns or times out,
\* a sleep ends
FairSpecLlm == SpecLlm /\ WF_vars(NextLlm)

(***************************************************************************)
(* Claims about build_ai_summary on the two report paths (SpecSummary)     *)
(***************************************************************************)
SummaryDone == out.op \in {"all", "short"}

\* C2: on both report paths every amount in total_expense, the monthly
\* series and the top categories comes from an expense-kind row: the
\* aggregates equal those of the expense rows alone.
C2_OnlyExpenseRowsAggregated ==
    SummaryDone =>
        out.summary.expense.agg =
            ExpenseAggregates(SelectSeq(out.summary.df_expense, LAMBDA r : r.kind = "expense"),
                              out.summary.period.start, out.summary.period.end)

\* C3: every expense aggregate is computed only from rows dated inside
\* [start_date, end_date]: the aggregates equal those of the rows inside
\* the window alone.
C3_OnlyWindowRowsAggregated ==
    SummaryDone =>
        out.summary.expense.agg =
            ExpenseAggregates(SelectSeq(out.summary.df_expense,
                                        LAMBDA r : /\ r.day >= out.summary.period.start
                                                   /\ r.day <= out.summary.period.end),
                              out.summary.period.start, out.summary.period.end)

\* C6: when the expected income is null or not positive, spend_ratio is
\* null and spend_judgement is the "cannot be determined" value, never "ok".
C6_UndeterminedWithoutIncome ==
    (SummaryDone /\ (\/ out.summary.income.expected_income_next_month = None
                     \/ out.summary.income.expected_income_next_month.n <= 0)) =>
        /\ out.summary.expense.spend_ratio = None
        /\ out.summary.expense.spend_judgement = "undetermined"

\* an estimate exists and is zero: every expense month sums to 0
C6_Witness ==
    /\ SummaryDone
    /\ out.summary.income.available
    /\ out.summary.income.expected_income_next_month # None
    /\ out.summary.income.expected_income_next_month.n = 0
    /\ out.summary.expense.spend_judgement = "undetermined"

\* C7: with a positive expected income the judgement is "ok" when
\* total_expense / expected_income is at or below overspend_ratio_ok,
\* "warning" when above it and at or below overspend_ratio_warn, and
\* "critical" when above overspend_ratio_warn.
C7_JudgementThresholds ==
    (SummaryDone /\ out.summary.income.expected_income_next_month # None
                 /\ out.summary.income.expected_income_next_month.n > 0) =>
        LET e     == out.summary.income.expected_income_next_month
            total == out.summary.expense.agg.total_expense
            p     == out.summary.params
        IN  out.summary.expense.spend_judgement =
                IF 100 * total * e.d <= p.overspend_ratio_ok * e.n THEN "ok"
                ELSE IF 100 * total * e.d <= p.overspend_ratio_warn * e.n THEN "warning"
                ELSE "critical"

(***************************************************************************)
(* Claims about _compute_short_term_compare (SpecCompare)                  *)
(***************************************************************************)
CompareDone == out.op = "short_term_compare"

\* the days of the history, and the gates of the three candidates, read
\* off the history itself
HistoryDays == {df[i].day : i \in {j \in 1..Len(df) : df[j].day # NaT}}

GateA ==
    LET w == stc_args.window_days
        e == stc_args.end_ts
    IN  Cardinality({d \in HistoryDays : e - 2 * w + 1 <= d /\ d <= e - w})
            >= (IF w \div 3 > 10 THEN w \div 3 ELSE 10)

\* months with data that lie strictly before the month of window_end
PriorMonths ==
    {m \in 1..12 : /\ MonthFirstDay[m + 1] <= stc_args.end_ts
                   /\ \E d \in HistoryDays : MonthFirstDay[m] <= d /\ d < MonthFirstDay[m + 1]}

\* the last baseline_months of them
BaselineMonths ==
    {m \in PriorMonths :
        Cardinality({k \in PriorMonths : k > m}) < stc_args.baseline_months}

GateB == Cardinality(BaselineMonths) >= 2

GateC == Cardinality(HistoryDays) >= 14

\* C1: the baseline is the first of A (previous window), B (recent full
\* months), C (overall median) whose gate passes, with confidence High,
\* Medium, Low; when no gate passes the result is available = false with a
\* reason and no baseline.
C1_BaselinePriority ==
    CompareDone =>
        IF GateA THEN /\ out.stc.available
                      /\ out.stc.baseline.used = "previous_window"
                      /\ out.stc.baseline.confidence = "High"
        ELSE IF GateB THEN /\ out.stc.available
                           /\ out.stc.baseline.used = "recent_full_months_daily_median"
                           /\ out.stc.baseline.confidence = "Medium"
        ELSE IF GateC THEN /\ out.stc.available
                           /\ out.stc.baseline.used = "overall_daily_median"
                           /\ out.stc.baseline.confidence = "Low"
        ELSE /\ ~out.stc.available
             /\ "reason" \in DOMAIN out.stc
             /\ "baseline" \notin DOMAIN out.stc

\* all three gates pass and the previous window is the one used
C1_Witness ==
    /\ CompareDone
    /\ GateA /\ GateB /\ GateC
    /\ out.stc.available
    /\ out.stc.baseline.used = "previous_window"

DeltaIsNull(cd) == cd.baseline = None /\ cd.diff = None /\ cd.pct = None

\* C4: per-category deltas and weekday/weekend deltas are non-null only
\* with the previous-window baseline; with the months or overall median
\* they are all null and baseline_reliable is false for every category.
C4_DeltasOnlyForPreviousWindow ==
    (CompareDone /\ out.stc.available) =>
        LET deltas == out.stc.category_deltas_top
            prevw  == out.stc.baseline.used = "previous_window"
        IN  /\ \A i \in 1..Len(deltas) : ~DeltaIsNull(deltas[i]) => prevw
            /\ (out.stc.change.weekday_diff # None \/ out.stc.change.weekend_diff # None) => prevw
            /\ ~prevw =>
                 /\ \A i \in 1..Len(deltas) :
                       DeltaIsNull(deltas[i]) /\ ~deltas[i].baseline_reliable
                 /\ out.stc.change.weekday_diff = None
                 /\ out.stc.change.weekend_diff = None

\* the months median is used and the top category of the current window
\* also has spending in the previous window
C4_Witness ==
    /\ CompareDone
    /\ out.stc.available
    /\ out.stc.baseline.used = "recent_full_months_daily_median"
    /\ Len(out.stc.category_deltas_top) >= 1
    /\ \E i \in 1..Len(df) :
          /\ df[i].day <= stc_args.end_ts - stc_args.window_days
          /\ df[i].day > stc_args.end_ts - 2 * stc_args.window_days
          /\ df[i].category_lv1 = out.stc.category_deltas_top[1].category_lv1

\* month total / number of distinct days with data, for a month of the year
DailyAverageOfMonth(m) ==
    LET inMonth(d) == MonthFirstDay[m] <= d /\ d < MonthFirstDay[m + 1]
        idx == {i \in 1..Len(df) : df[i].day # NaT /\ inMonth(df[i].day)}
        F[S \in SUBSET idx] ==
            IF S = {} THEN 0
            ELSE LET i == CHOOSE j \in S : TRUE IN df[i].amount_abs + F[S \ {i}]
    IN  [n |-> F[idx], d |-> Cardinality({df[i].day : i \in idx})]

\* C5: candidate B's total is window_days times the median of the
\* per-month daily averages of at most the last baseline_months months
\* (with data) strictly before the month of window_end; that month is never
\* used, and B is not accepted with fewer than 2 months.
C5_MonthsMedianBaseline ==
    (CompareDone /\ out.stc.available
       /\ out.stc.baseline.used = "recent_full_months_daily_median") =>
        LET ms   == SortAsc(BaselineMonths)
            avgs == [i \in 1..Len(ms) |-> DailyAverageOfMonth(ms[i])]
            med  == RMedian(avgs)
            tot  == out.stc.baseline.total_for_window
        IN  /\ Len(ms) >= 2
            /\ Len(ms) <= stc_args.baseline_months
            /\ tot.n * med.d = stc_args.window_days * med.n * tot.d
            /\ \A i \in 1..Len(out.stc.baseline.months_used) :
                  MonthFirstDay[out.stc.baseline.months_used[i] + 1] <= stc_args.end_ts

\* B is used while the month of window_end has data of its own, and the
\* two months used have different daily averages
C5_Witness ==
    /\ CompareDone
    /\ out.stc.available
    /\ out.stc.baseline.used = "recent_full_months_daily_median"
    /\ \E i \in 1..Len(df) : _month_key(df[i].day) = _month_key(stc_args.end_ts)
    /\ Len(out.stc.baseline.months_used) = 2
    /\ ~REq(DailyAverageOfMonth(out.stc.baseline.months_used[1]),
            DailyAverageOfMonth(out.stc.baseline.months_used[2]))

(***************************************************************************)
(* Claims about _estimate_income_from_expense (SpecIncome)                 *)
(***************************************************************************)
IncomeDone == out.op = "income" /\ out.income.available

\* C8: for savings rates given in either order and any non-negative fixed
\* cost, the returned range satisfies income_low <= income_high, also after
\* the fixed-cost floor is applied.
C8_IncomeRangeOrdered ==
    IncomeDone =>
        RLe(out.income.expected_income_range[1], out.income.expected_income_range[2])

\* rates given in swapped order, floor applied to the low end only
C8_Witness ==
    /\ IncomeDone
    /\ params.savings_rate_low > params.savings_rate_high
    /\ fixed_cost_est_monthly.n > 0 /\ params.fixed_cost_max_ratio > 0
    /\ out.income.expected_income_range[1].n * params.fixed_cost_max_ratio
         = 100 * fixed_cost_est_monthly.n * out.income.expected_income_range[1].d
    /\ RLt(out.income.expected_income_range[1], out.income.expected_income_range[2])

\* x >= fixed / (ratio / 100)
AtLeastFloor(x, fixed, ratio) ==
    x # None /\ x.n * ratio * fixed.d >= 100 * fixed.n * x.d

\* C9: when fixed_cost_monthly > 0 (and the estimate is available, with a
\* positive fixed_cost_max_ratio), the expected income and both ends of the
\* range are at least fixed_cost_monthly / fixed_cost_max_ratio.
C9_FloorCorrection ==
    (IncomeDone /\ fixed_cost_est_monthly.n > 0 /\ params.fixed_cost_max_ratio > 0) =>
        /\ AtLeastFloor(out.income.expected_income_next_month,
                        fixed_cost_est_monthly, params.fixed_cost_max_ratio)
        /\ AtLeastFloor(out.income.expected_income_range[1],
                        fixed_cost_est_monthly, params.fixed_cost_max_ratio)
        /\ AtLeastFloor(out.income.expected_income_range[2],
                        fixed_cost_est_monthly, params.fixed_cost_max_ratio)

\* the median-based estimate base / (1 - mid) lies below the floor and the
\* floor is what is returned
C9_Witness ==
    /\ IncomeDone
    /\ fixed_cost_est_monthly.n > 0 /\ params.fixed_cost_max_ratio > 0
    /\ LET lo  == ClampRate(params.savings_rate_low)
           hi  == ClampRate(params.savings_rate_high)
           raw == [n |-> out.income.base_expense.n * 200,
                   d |-> out.income.base_expense.d * (200 - lo - hi)]
       IN  /\ out.income.base_expense.n > 0
           /\ ~AtLeastFloor(raw, fixed_cost_est_monthly, params.fixed_cost_max_ratio)
    /\ out.income.expected_income_next_month.n * params.fixed_cost_max_ratio
         = 100 * fixed_cost_est_monthly.n * out.income.expected_income_next_month.d

\* the months the estimate uses: the last min(recent_k, months available)
RecentUsed ==
    LET n == Min(params.expense_recent_k, Len(monthly_expense))
    IN  [i \in 1..n |-> monthly_expense[Len(monthly_expense) - n + i]]

\* sum of (n x - S)^2 over the values x of s, n = Len(s), S = their sum
RECURSIVE DevSq(_, _, _)
DevSq(s, n, S) ==
    IF s = <<>> THEN 0
    ELSE (n * Head(s) - S) * (n * Head(s) - S) + DevSq(Tail(s), n, S)

\* std / mean < num / den, in exact arithmetic; false when the mean is 0
CvStrictlyBelow(s, num, den) ==
    LET n == Len(s)
        S == SumSeq(s)
    IN  den * den * DevSq(s, n, S) < num * num * n * S * S

\* std / mean <= num / den, in exact arithmetic; true when every value is 0
CvAtMost(s, num, den) ==
    LET n == Len(s)
        S == SumSeq(s)
    IN  den * den * DevSq(s, n, S) <= num * num * n * S * S

C11_ZeroMeanIsLow ==
    (out.op = "income" /\ Len(monthly_expense) > 0 /\ SumSeq(RecentUsed) = 0) =>
        /\ out.income.available
        /\ out.income.confidence = "Low"

\* the k-th smallest value of a sequence of integers
KthSmallest(s, k) ==
    CHOOSE x \in {s[i] : i \in 1..Len(s)} :
        /\ Cardinality({i \in 1..Len(s) : s[i] < x}) < k
        /\ Cardinality({i \in 1..Len(s) : s[i] <= x}) >= k

\* twice the median of a non-empty sequence of integers
TwiceMedian(s) == KthSmallest(s, (Len(s) + 1) \div 2) + KthSmallest(s, Len(s) \div 2 + 1)

NoFloor == fixed_cost_est_monthly.n = 0 \/ params.fixed_cost_max_ratio <= 0

AggregatedMonths ==
    {m \in 1..12 : \E i \in 1..Len(out.summary.df_expense) :
        /\ MonthFirstDay[m] <= out.summary.df_expense[i].day
        /\ out.summary.df_expense[i].day < MonthFirstDay[m + 1]}

\* C13: with fewer than 2 months in the monthly series, month-over-month
\* has available = false and a null change rate (never 0%); with no month
\* of data the income estimate has available = false, a null expected
\* income and a null range.
C13_UnavailableMarkers ==
    SummaryDone =>
        /\ Cardinality(AggregatedMonths) < 2 =>
              /\ ~out.summary.expense.agg.mom_change.available
              /\ out.summary.expense.agg.mom_change.change_rate = None
        /\ Cardinality(AggregatedMonths) = 0 =>
              /\ ~out.summary.income.available
              /\ out.summary.income.expected_income_next_month = None
              /\ out.summary.income.expected_income_range = <<None, None>>

\* a report over a table without a single expense row
C13_Witness ==
    /\ SummaryDone
    /\ Len(df) > 0
    /\ AggregatedMonths = {}
    /\ ~out.summary.expense.agg.mom_change.available
    /\ ~out.summary.income.available

(***************************************************************************)
(* Claims about the fixed-cost detection of build_ai_summary (SpecFixed)   *)
(***************************************************************************)
\* the months of the window in which description x has an expense row
MonthsPaid(x) ==
    {m \in 1..12 : \E i \in 1..Len(df) :
        /\ df[i].kind = "expense" /\ df[i].description = x
        /\ df[i].day >= date_range[1] /\ df[i].day <= date_range[2]
        /\ MonthFirstDay[m] <= df[i].day /\ df[i].day < MonthFirstDay[m + 1]}

DescsOfTable == {df[i].description : i \in 1..Len(df)}

\* the descriptions that pass the recurrence gate
Recurring == {x \in DescsOfTable : Cardinality(MonthsPaid(x)) >= 3}

\* the descriptions listed in fixed_candidates
Listed ==
    {out.summary.expense.fixed_candidates[i][1] :
        i \in 1..Len(out.summary.expense.fixed_candidates)}

\* C14 as stated: a description in exactly 2 months of the window is never
\* listed, one in exactly 3 months is always listed.
C14_Original ==
    out.op = "all" =>
        \A x \in DescsOfTable :
            /\ Cardinality(MonthsPaid(x)) = 2 => x \notin Listed
            /\ Cardinality(MonthsPaid(x)) = 3 => x \in Listed

\* C14 amended: a description in exactly 2 months of the window is never
\* listed; one in exactly 3 months is listed whenever at most 10
\* descriptions occur in 3 or more months of the window.
C14_RecurrenceGate ==
    out.op = "all" =>
        \A x \in DescsOfTable :
            /\ Cardinality(MonthsPaid(x)) = 2 => x \notin Listed
            /\ (Cardinality(MonthsPaid(x)) = 3 /\ Cardinality(Recurring) <= 10) => x \in Listed

\* one description with 3 months in the window is listed next to one with 2
C14_Witness ==
    /\ out.op = "all"
    /\ \E x \in DescsOfTable : Cardinality(MonthsPaid(x)) = 3 /\ x \in Listed
    /\ \E x \in DescsOfTable : Cardinality(MonthsPaid(x)) = 2 /\ x \notin Listed

\* the expense rows of description x inside the window
PaidRows(x) ==
    {i \in 1..Len(df) : /\ df[i].kind = "expense" /\ df[i].description = x
                        /\ df[i].day >= date_range[1] /\ df[i].day <= date_range[2]}

\* mean amount per occurrence of description x (x has a row in the window)
MeanPaid(x) ==
    LET F[S \in SUBSET PaidRows(x)] ==
            IF S = {} THEN 0
            ELSE LET i == CHOOSE j \in S : TRUE IN df[i].amount_abs + F[S \ {i}]
    IN  [n |-> F[PaidRows(x)], d |-> Cardinality(PaidRows(x))]

\* sum of the mean amounts of a set of descriptions
RECURSIVE SumOfMeans(_)
SumOfMeans(S) ==
    IF S = {} THEN RInt(0)
    ELSE LET x == CHOOSE y \in S : TRUE IN RAdd(MeanPaid(x), SumOfMeans(S \ {x}))

\* C15: when more than 10 descriptions pass the recurrence gate,
\* fixed_candidates holds exactly the 10 qualifying descriptions with the
\* highest mean per-occurrence amount, and fixed_cost_est_monthly is the sum
\* of the mean amounts of the candidates kept.
C15_TopTenByMean ==
    (out.op = "all" /\ Cardinality(Recurring) > 10) =>
        /\ Listed \subseteq Recurring
        /\ Cardinality(Listed) = 10
        /\ \A x \in Listed, y \in Recurring \ Listed : RLe(MeanPaid(y), MeanPaid(x))
        /\ REq(out.summary.expense.fixed_cost_est_monthly, SumOfMeans(Listed))

\* a number of the output is a real number or the explicit null
NumberOrNull(x) == x = None \/ x.d > 0

\* C16: every ratio of the summary (spend ratio, month-over-month and
\* baseline percentage change, per-category percentage change, fixed-cost
\* ratio, the budget shares) is null when its denominator is zero, never
\* NaN or Infinity.
C16_RatiosGuarded ==
    out.op = "all" =>
        LET e == out.summary.expense
            c == out.summary.short_term_compare
        IN  /\ NumberOrNull(e.spend_ratio)
            /\ NumberOrNull(e.agg.mom_change.change_rate)
            /\ NumberOrNull(e.fixed_cost_ratio_est)
            /\ c.available =>
                  /\ NumberOrNull(c.change.pct)
                  /\ \A i \in 1..Len(c.category_deltas_top) :
                        NumberOrNull(c.category_deltas_top[i].pct)
            /\ \A i \in 1..Len(e.budget_recommendation) :
                  /\ NumberOrNull(e.budget_recommendation[i].recommended_budget)
                  /\ NumberOrNull(e.budget_recommendation[i].diff)

(***************************************************************************)
(* Claims about _compute_budget_recommendation (SpecBudget)                *)
(***************************************************************************)
\* the dated rows of the table, and the last three months that have any
DatedRows == {i \in 1..Len(df) : df[i].day # NaT}

MonthOfRow(i) ==
    CHOOSE m \in 1..12 : MonthFirstDay[m] <= df[i].day /\ df[i].day < MonthFirstDay[m + 1]

LastThreeMonths ==
    LET ms == {MonthOfRow(i) : i \in DatedRows}
    IN  {m \in ms : Cardinality({k \in ms : k > m}) < 3}

\* a category's total over the last three months
RecentSpend(c) ==
    LET idx == {i \in DatedRows : MonthOfRow(i) \in LastThreeMonths /\ df[i].category_lv1 = c}
        F[S \in SUBSET idx] ==
            IF S = {} THEN 0
            ELSE LET i == CHOOSE j \in S : TRUE IN df[i].amount_abs + F[S \ {i}]
    IN  F[idx]

RECURSIVE SumBudgets(_)
SumBudgets(rows) ==
    IF rows = <<>> THEN RInt(0)
    ELSE RAdd(Head(rows).recommended_budget, SumBudgets(Tail(rows)))

PreprocessDone == out.op = "preprocess"

\* C18: every row run_preprocess returns has exactly one of is_expense,
\* is_income, is_transfer true, whatever its type text, description,
\* category, payment method and amount sign were.
C18_ExactlyOneKind ==
    (PreprocessDone /\ out.result.ok) =>
        \A i \in 1..Len(out.result.rows) :
            LET r == out.result.rows[i]
            IN  Cardinality({k \in {"e", "i", "t"} :
                                \/ k = "e" /\ r.is_expense
                                \/ k = "i" /\ r.is_income
                                \/ k = "t" /\ r.is_transfer}) = 1

\* a table of an expense row and a transfer row of negative amount
C18_Witness ==
    /\ PreprocessDone /\ out.result.ok
    /\ Len(out.result.rows) = 2
    /\ out.result.rows[1].is_expense
    /\ out.result.rows[2].is_transfer /\ out.result.rows[2].amount < 0

\* the text cells of raw row i that the header makes readable
TextCells(i) ==
    {raw_df.rows[i][c] :
        c \in {"type", "description", "category_lv1", "payment_method"}
                \cap FoundStdCols(raw_df.columns)}

\* one of the cells holds one of the keywords
Matches(i, kws) == \E cell \in TextCells(i) : StrContains(cell, kws)

\* C19: kind inference follows transfer keywords > income keywords >
\* expense keywords > amount sign: a row matching a transfer keyword is a
\* transfer whatever else it matches, one matching an income keyword and no
\* transfer keyword is income, one matching only expense keywords is an
\* expense, and one matching no keyword is an expense when its amount is
\* negative and income otherwise.  (Stated on tables none of whose rows is
\* dropped, so that output row i is raw row i.)
C19_KindPriority ==
    (PreprocessDone /\ out.result.ok /\ Len(out.result.rows) = Len(raw_df.rows)) =>
        \A i \in 1..Len(raw_df.rows) :
            out.result.rows[i].type =
                IF Matches(i, transfer_kw) THEN "transfer"
                ELSE IF Matches(i, income_kw) THEN "income"
                ELSE IF Matches(i, expense_kw) THEN "expense"
                ELSE IF out.result.rows[i].amount < 0 THEN "expense"
                ELSE "income"

\* a row matching a transfer, an income and an expense keyword at once
C19_Witness ==
    /\ PreprocessDone /\ out.result.ok
    /\ Len(raw_df.rows) = 1 /\ Len(out.result.rows) = 1
    /\ Matches(1, transfer_kw) /\ Matches(1, income_kw) /\ Matches(1, expense_kw)
    /\ out.result.rows[1].type = "transfer"

\* the header has a column that maps to date / to amount
HasDateColumn == raw_df.columns \cap {"_nal_jja", "date", "Date"} # {}
HasAmountColumn == raw_df.columns \cap {"_geum_aeg", "amount", "_geum_aeg(won)", "price"} # {}

\* C20: when the raw table has no column that maps to date or none that
\* maps to amount, run_preprocess fails with an error that names the
\* missing required fields, and returns no rows.
C20_MissingRequiredColumn ==
    (PreprocessDone /\ (~HasDateColumn \/ ~HasAmountColumn)) =>
        /\ ~out.result.ok
        /\ "rows" \notin DOMAIN out.result
        /\ out.result.error.what = "required columns missing"
        /\ ~HasDateColumn => "date" \in out.result.error.names
        /\ ~HasAmountColumn => "amount" \in out.result.error.names

\* a table with rows and a date column whose amount column is missing
C20_Witness ==
    /\ PreprocessDone
    /\ HasDateColumn /\ ~HasAmountColumn
    /\ Len(raw_df.rows) > 0
    /\ ~out.result.ok
    /\ out.result.error.what = "required columns missing"

\* the raw rows whose date and amount both parse, in order
ParsedRows ==
    SelectSeq(raw_df.rows,
              LAMBDA r : r.date # NaT /\ ToNumeric(CleanAmount(r.amount)) # NaN)

\* the number of rows the warnings of the given kind report as excluded
RECURSIVE WarnedCount(_, _)
WarnedCount(warnings, kinds) ==
    IF warnings = <<>> THEN 0
    ELSE (IF Head(warnings).what \in kinds THEN Head(warnings).count ELSE 0)
            + WarnedCount(Tail(warnings), kinds)

\* C21: rows whose date or amount cannot be parsed are dropped from the
\* output of run_preprocess, and the number dropped is handed to the warning
\* function while the call returns normally; when no row is left the call
\* fails with an error and returns no table.
C21_UnparsableRowsDropped ==
    (PreprocessDone /\ HasDateColumn /\ HasAmountColumn) =>
        IF ParsedRows = <<>>
        THEN /\ ~out.result.ok
             /\ "rows" \notin DOMAIN out.result
             /\ out.result.error.what = "no valid row"
        ELSE /\ out.result.ok
             /\ Len(out.result.rows) = Len(ParsedRows)
             /\ \A i \in 1..Len(ParsedRows) :
                    /\ out.result.rows[i].date = ParsedRows[i].date
                    /\ RInt(out.result.rows[i].amount)
                            = ToNumeric(CleanAmount(ParsedRows[i].amount))
             /\ WarnedCount(out.result.warnings, {"date", "amount"})
                    = Len(raw_df.rows) - Len(ParsedRows)
             /\ \A k \in 1..Len(out.result.warnings) :
                    out.result.warnings[k].what \in {"date", "amount"}
                        => out.result.warnings[k].count > 0

\* a row with a bad amount is dropped, one row is kept and one is reported
C21_Witness ==
    /\ PreprocessDone /\ out.result.ok
    /\ Len(raw_df.rows) = 2 /\ Len(out.result.rows) = 1
    /\ raw_df.rows[2].date # NaT
    /\ WarnedCount(out.result.warnings, {"amount"}) = 1

(***************************************************************************)
(* Claims about repeated runs of build_ai_summary (SpecFixed)              *)
(***************************************************************************)
\* a list of <<key, amount>> pairs has two entries of equal amount
TiedPairs(pairs) ==
    \E i \in 1..Len(pairs), j \in 1..Len(pairs) : i < j /\ pairs[i][2] = pairs[j][2]

ActiveRows(s) == IF s.dm_df_active = <<>> THEN <<>> ELSE s.dm_df_active[1]

RowSet(rows) == {rows[i] : i \in 1..Len(rows)}

CountIn(rows, r) == Cardinality({i \in 1..Len(rows) : rows[i] = r})

PoolNames == {f.name : f \in UploadPool}

\* C23: a script run that deletes the file name takes out of the active
\* table every row tagged with name and keeps every other row as it was
\* (as many copies of it, none new; the table stays absent when it was
\* absent); name leaves the raw files, the upload log and the clean-file
\* metadata while the entries of the other files stay; the active source
\* becomes none when it was name and stays otherwise.
C23_DeleteFileFrame ==
    [][\A name \in PoolNames :
          out'.deleted = <<name>> =>
            /\ (session_state'.dm_df_active = <<>>) = (session_state.dm_df_active = <<>>)
            /\ RowSet(ActiveRows(session_state')) \subseteq RowSet(ActiveRows(session_state))
            /\ \A r \in RowSet(ActiveRows(session_state)) :
                  CountIn(ActiveRows(session_state'), r) =
                      IF r[SOURCE_COL] = name THEN 0
                      ELSE CountIn(ActiveRows(session_state), r)
            /\ \A key \in {"dm_raw_files", "dm_upload_log", "dm_clean_files"} :
                  /\ DOMAIN session_state'[key] = DOMAIN session_state[key] \ {name}
                  /\ \A k \in DOMAIN session_state'[key] :
                        session_state'[key][k] = session_state[key][k]
            /\ session_state'.dm_data_source =
                  IF session_state.dm_data_source = <<name>> THEN <<>>
                  ELSE session_state.dm_data_source
      ]_vars

\* "b.csv", merged last into the table "a.csv" started, has been deleted:
\* the rows of "a.csv" are the table and there is no active source
C23_Witness ==
    /\ out.op = "uploader"
    /\ out.deleted = <<"b.csv">>
    /\ session_state.dm_data_source = <<>>
    /\ Len(ActiveRows(session_state)) = 3
    /\ \A r \in RowSet(ActiveRows(session_state)) : r[SOURCE_COL] = "a.csv"
    /\ "a.csv" \in DOMAIN session_state.dm_clean_files
    /\ "a.csv" \in DOMAIN session_state.dm_raw_files


\* the script run in which the uploader comes to hold the one file f
UploadsOne(f) ==
    /\ session_state'.dm_uploader_sidebar = <<f>>
    /\ session_state.dm_uploader_sidebar # <<f>>

\* the rows of the table after the step are the rows before it plus the
\* cleaned rows of f whose calendar day no row had, tagged with f.name
AppendsNewDays(f) ==
    LET old  == ActiveRows(session_state)
        new  == ActiveRows(session_state')
        rows == run_preprocess(f.data.table).rows
        days == {old[i].date \div DayTicks : i \in 1..Len(old)}
        Tagged(r) == [c \in DOMAIN r \cup {SOURCE_COL} |->
                          IF c = SOURCE_COL THEN f.name ELSE r[c]]
        Added(r) == Cardinality({i \in 1..Len(rows) :
                        /\ rows[i].date \div DayTicks \notin days
                        /\ Tagged(rows[i]) = r})
    IN  \A r \in RowSet(old) \cup RowSet(new) \cup {Tagged(rows[i]) : i \in 1..Len(rows)} :
            CountIn(new, r) = CountIn(old, r) + Added(r)

\* The part of C24 that holds: when the selection is not the one processed
\* last (its token differs), so that the upload loop runs, the rows of the
\* file whose calendar day does not occur in the active table are appended
\* and nothing else changes in the table.
AppendByDayWhenProcessed ==
    [][\A f \in UploadPool :
          (/\ UploadsOne(f)
           /\ run_preprocess(f.data.table).ok
           /\ ActiveRows(session_state) # <<>>
           /\ session_state.dm_last_processed_token # <<Token(<<f>>)>>)
          => AppendsNewDays(f)
      ]_vars

\* C24: whenever the uploader comes to hold one file that preprocessing
\* accepts while the active table has rows, exactly the rows of the file
\* whose calendar day does not occur in the active table are appended,
\* before or after the dates there, each tagged with the file's name, and
\* every row of the active table is kept as it was.
C24_AppendByDay ==
    [][\A f \in UploadPool :
          (/\ UploadsOne(f)
           /\ run_preprocess(f.data.table).ok
           /\ ActiveRows(session_state) # <<>>)
          => AppendsNewDays(f)
      ]_vars


\* the script run in which the uploader comes to hold a new selection
Selects(files) ==
    /\ files # <<>>
    /\ session_state'.dm_uploader_sidebar = files
    /\ session_state.dm_uploader_sidebar # files

\* what the data manager stores for the user
Stored(s) ==
    [raw_files |-> s.dm_raw_files, upload_log |-> s.dm_upload_log,
     clean_files |-> s.dm_clean_files, df_active |-> s.dm_df_active]

C30_OneFilePerDay ==
    out.op = "uploader" =>
        \A r1, r2 \in RowSet(ActiveRows(session_state)) :
            r1.date \div DayTicks = r2.date \div DayTicks => r1[SOURCE_COL] = r2[SOURCE_COL]

\* "b.csv" was merged into the table of "a.csv": its row of day 2, a day
\* "a.csv" holds, was left out and its row of day 3 was appended
C30_Witness ==
    /\ out.op = "uploader"
    /\ {<<r.date, r[SOURCE_COL]>> : r \in RowSet(ActiveRows(session_state))}
           = {<<2, "a.csv">>, <<3, "a.csv">>, <<4, "a.csv">>, <<6, "b.csv">>}
    /\ "b.csv" \in DOMAIN session_state.dm_clean_files
    /\ session_state.dm_clean_files["b.csv"].dropped_duplicate_days = 1


(***************************************************************************)
(* Claims about the data manager called operation by operation             *)
(* (SpecDataManager)                                                       *)
(***************************************************************************)
\* the dates of the active table that are dates
DatesOfActive(s) ==
    {r.date : r \in {x \in RowSet(ActiveRows(s)) : "date" \in DOMAIN x /\ x.date # NaT}}

\* C29: after any sequence of data-manager operations the stored timeline
\* maximum is the latest date of the active table, and none when the table
\* is absent, has no rows or has no date.
C29_TimelineIsLatestDate ==
    out.op = "data_manager" =>
        /\ DatesOfActive(session_state) = {} => session_state.dm_timeline_max = <<>>
        /\ DatesOfActive(session_state) # {} =>
              /\ Len(session_state.dm_timeline_max) = 1
              /\ session_state.dm_timeline_max[1] \in DatesOfActive(session_state)
              /\ \A x \in DatesOfActive(session_state) : x <= session_state.dm_timeline_max[1]

\* delete_file("a.csv") has taken the latest rows out of a table that was
\* out of order: the timeline fell to the date of the row of "b.csv"
C29_Witness ==
    /\ out.op = "data_manager"
    /\ session_state.dm_df_active =
           << << [date |-> 1, amount |-> RInt(1), __source_file |-> "b.csv"] >> >>
    /\ session_state.dm_timeline_max = <<1>>


(***************************************************************************)
(* Claims about the report cache (SpecReport)                              *)
(***************************************************************************)
Buttons ==
    [mode : {"all", "short"}, summary : Summaries, p : SliderValues, response : Responses]

\* the key of the summary, the parameters and the model of a button press
PressedKey(b) ==
    IF b.mode = "all"
    THEN make_ai_report_key(b.summary, ParamsDictAll(b.p), "gemini-2.5-flash", "v2_all")
    ELSE make_ai_report_key(b.summary, ParamsDictShort(b.p), "gemini-2.5-flash", "v2_short")

\* the cache holds a non-empty report for the key in the mode
Cached(cache, mode, key) ==
    /\ key \in DOMAIN cache.files[mode]
    /\ cache.files[mode][key].result.type = "dict"
    /\ cache.files[mode][key].result.size > 0
    /\ cache.files[mode][key].summary.type = "dict"

\* what a press of a report button does up to the saving of the result
PressedAsClaimed(b) ==
    IF Cached(disk, b.mode, PressedKey(b))
    THEN /\ session_state'[ResultKey(b.mode)] = <<disk.files[b.mode][PressedKey(b)].result>>
         /\ llm' = llm
         /\ disk' = disk
    ELSE /\ llm'.calls = llm.calls + 1
         /\ b.response.status # "ok" => session_state' = session_state /\ disk' = disk
         /\ b.response.status = "ok" =>
               /\ session_state'[ResultKey(b.mode)] = <<b.response.json>>
               /\ session_state'[SummaryKey(b.mode)] = <<b.summary>>
               /\ PressedKey(b) \in DOMAIN disk'.files[b.mode]
               /\ disk'.files[b.mode][PressedKey(b)].summary = b.summary
               /\ disk'.files[b.mode][PressedKey(b)].result =
                      IF b.response.json.size > 0 THEN b.response.json ELSE EmptyJsonDict
               /\ \A m \in Modes : \A k \in DOMAIN disk.files[m] :
                      (m # b.mode \/ k # PressedKey(b)) =>
                          k \in DOMAIN disk'.files[m] /\ disk'.files[m][k] = disk.files[m][k]

\* C26 (as amended): a press of a report button with a non-empty report
\* cached for its key puts that report into the session and calls no LLM;
\* otherwise the LLM is called, and if the call returns, its result is put
\* into the session and saved under that key and mode; the press leaves a
\* non-empty report cached for the key, so that the next such press is
\* served from the cache, when the result is a non-empty JSON object.
C26_CacheThenLlm ==
    [][\A b \in Buttons :
          out'.pressed = <<b>> =>
            /\ PressedAsClaimed(b)
            /\ (/\ b.response.status = "ok"
                /\ b.response.json.type = "dict"
                /\ b.response.json.size > 0)
               => Cached(disk', b.mode, PressedKey(b))
      ]_vars

\* C26 as stated: whatever the LLM returned is served from the cache later
C26_Original ==
    [][\A b \in Buttons :
          out'.pressed = <<b>> =>
            /\ PressedAsClaimed(b)
            /\ b.response.status = "ok" => Cached(disk', b.mode, PressedKey(b))
      ]_vars

\* the full-period button was pressed twice with the same inputs: the LLM
\* was called once, and the second press took the report of the first from
\* the cache, not the answer the LLM would have given
C26_Witness ==
    /\ out.op = "report"
    /\ out.pressed # <<>>
    /\ out.pressed[1].mode = "all"
    /\ out.pressed[1].response = [status |-> "ok", json |-> JsonDict(3)]
    /\ session_state["ai_report_result_all"] = <<JsonDict(2)>>
    /\ session_state["ai_report_summary_all"] = <<out.pressed[1].summary>>
    /\ llm.calls = 1
    /\ Cached(disk, "all", PressedKey(out.pressed[1]))


\* the file of a mode that was saved last
LatestSaved(files) ==
    files[CHOOSE k \in DOMAIN files : \A j \in DOMAIN files : files[j].saved_at <= files[k].saved_at]

\* C27: a restore of a mode, forced or made while the session holds no
\* report of the mode, puts into the session the report of the mode that
\* was saved last, whatever the keys and the order of the saved reports.
C27_RestoresLatestSaved ==
    [][\A mode \in Modes, force \in BOOLEAN :
          (/\ out'.restored = <<[mode |-> mode, force |-> force]>>
           /\ DOMAIN disk.files[mode] # {}
           /\ force \/ session_state[ResultKey(mode)] = <<>>
           /\ LatestSaved(disk.files[mode]).result.type = "dict"
           /\ LatestSaved(disk.files[mode]).result.size > 0)
          => /\ session_state'[ResultKey(mode)] = <<LatestSaved(disk.files[mode]).result>>
             /\ session_state'[SummaryKey(mode)] = <<LatestSaved(disk.files[mode]).summary>>
      ]_vars


(***************************************************************************)
(* Claims about call_llm_json (FairSpecLlm)                                *)
(***************************************************************************)
Failed(resp) == resp.status # 200 \/ resp.text \notin {"{..}", "[..]"}

\* the call has returned or raised
LlmDone == llm.pc \in {"returned", "raised"}

\* what holds of the requests made so far and of the way the call ended
LlmWithinRetries ==
    out.op = "call_llm_json" =>
        /\ Len(llm.responses) <= llm.max_retries + 1 \/ llm.responses = <<>>
        /\ ~llm.GEMINI_API_KEY => llm.responses = <<>> /\ llm.pc \in {"start", "raised"}
        /\ \A i \in 1..(Len(llm.responses) - 1) : Failed(llm.responses[i])
        /\ (llm.pc = "returned" /\ llm.max_retries >= 0) =>
              /\ ~Failed(llm.responses[Len(llm.responses)])
              /\ llm.result = <<IF llm.responses[Len(llm.responses)].text = "{..}"
                                THEN JsonDict(2) ELSE JsonList>>
        /\ (llm.pc = "raised" /\ llm.GEMINI_API_KEY) =>
              /\ Len(llm.responses) = llm.max_retries + 1
              /\ Failed(llm.responses[Len(llm.responses)])
        /\ llm.pc \in {"post", "sleep"} =>
              /\ Len(llm.responses) <= llm.max_retries
              /\ \A i \in 1..Len(llm.responses) : Failed(llm.responses[i])

\* C28: call_llm_json ends, having made at most max_retries + 1 requests:
\* it returns the parsed JSON of the first request that succeeds, every
\* request before it having failed, and raises only without an API key,
\* before any request, or when request max_retries + 1 has failed too.
C28_TerminatesWithinRetries == []LlmWithinRetries /\ <>LlmDone

\* the third request of a call with max_retries = 2 succeeded after a
\* timeout and a non-200 answer
C28_Witness ==
    /\ out.op = "call_llm_json"
    /\ llm.pc = "returned"
    /\ llm.max_retries = 2
    /\ Len(llm.responses) = 3
    /\ llm.responses[1].status = 0
    /\ llm.responses[2].status = 500
    /\ llm.result = <<JsonDict(2)>>
====
